---- MODULE Spec2Model ----
(***************************************************************************)
(* kaleidoscope: the session state machine of src/main.go (a bubbletea     *)
(* model), its orchestration commands and the external panes / worktrees   *)
(* they manipulate.                                                        *)
(*                                                                         *)
(* A Go string is a sequence of one-character strings.  Rows, columns and  *)
(* indices keep Go's 0-based values; sequences are indexed with +1.        *)
(* The session struct `model` is the record variable m.  Maps of the       *)
(* struct are functions whose DOMAIN is the key set.                       *)
(***************************************************************************)
EXTENDS Integers, Sequences, FiniteSets, TLC

VARIABLES
    m,        \* the bubbletea model (type model, main.go:299)
    cmds,     \* tea.Cmd closures returned by Update and not yet run
    msgs,     \* completion messages produced by commands, not yet delivered
    panes,    \* tmux: ids of the live panes this session opened
    paneSeq,  \* tmux: number of pane ids handed out so far
    wts,      \* git: existing worktrees (each with its temporary branch)
    branches, \* git: existing feature branches
    choices,  \* .kaleidoscope: usage counters, <<provider, model>> -> count
    trace,    \* the run of the latest command, until its message is delivered
    launches, \* number of Launch commands started
    quit,     \* tea.Quit was returned
    panicked  \* Update panicked: the program has terminated without cleanup

vars == <<m, cmds, msgs, panes, paneSeq, wts, branches, choices, trace, launches, quit, panicked>>

----------------------------------------------------------------------------
(* Bounds of the model                                                     *)

MaxCount    == 2   \* largest multiplicity of one model in the Selection Table
MaxLaunch   == 2   \* Launch commands started in one session
MaxInFlight == 2   \* commands and messages in flight together
MaxRows     == 2   \* rows of a multi-line buffer
MaxHist     == 2   \* entries the History Store grows to

historyMax == 20

----------------------------------------------------------------------------
(* Strings                                                                 *)

White == {" ", "\t", "\n", "\r"}

\* the three bytes the editing code of main.go tests for
Blank == {" ", "\t", "\n"}

RECURSIVE TrimLeft(_)
TrimLeft(s) ==
    IF s # <<>> /\ Head(s) \in White THEN TrimLeft(Tail(s)) ELSE s

RECURSIVE TrimRight(_)
TrimRight(s) ==
    IF s # <<>> /\ s[Len(s)] \in White THEN TrimRight(SubSeq(s, 1, Len(s) - 1)) ELSE s

TrimSpace(s) == TrimRight(TrimLeft(s))

HasPrefix(s, p) == Len(s) >= Len(p) /\ SubSeq(s, 1, Len(p)) = p

TrimPrefix(s, p) == IF HasPrefix(s, p) THEN SubSeq(s, Len(p) + 1, Len(s)) ELSE s

\* s[a:b] of Go
Slice(s, a, b) == SubSeq(s, a + 1, b)

RECURSIVE JoinWith(_, _)
JoinWith(rows, sep) ==
    IF rows = <<>> THEN <<>>
    ELSE IF Len(rows) = 1 THEN rows[1]
    ELSE rows[1] \o sep \o JoinWith(Tail(rows), sep)

JoinLines(rows) == JoinWith(rows, <<"\n">>)

\* index (0-based) of the first occurrence of character c in s, or -1
RECURSIVE IndexFrom(_, _, _)
IndexFrom(s, c, i) ==
    IF i >= Len(s) THEN -1
    ELSE IF s[i + 1] = c THEN i
    ELSE IndexFrom(s, c, i + 1)

IndexOf(s, c) == IndexFrom(s, c, 0)

\* strings.Split(s, "\n")
RECURSIVE SplitLines(_)
SplitLines(s) ==
    LET i == IndexOf(s, "\n") IN
    IF i = -1 THEN <<s>>
    ELSE <<Slice(s, 0, i)>> \o SplitLines(Slice(s, i + 1, Len(s)))

\* strings.SplitN(s, " ", 2)
SplitN2(s) ==
    LET i == IndexOf(s, " ") IN
    IF i = -1 THEN <<s>>
    ELSE <<Slice(s, 0, i), Slice(s, i + 1, Len(s))>>

Digit == <<"0", "1", "2", "3", "4", "5", "6", "7", "8", "9">>

\* fmt.Sprintf("%d", n) for n >= 0
RECURSIVE Itoa(_)
Itoa(n) == IF n < 10 THEN <<Digit[n + 1]>> ELSE Itoa(n \div 10) \o <<Digit[(n % 10) + 1]>>

Range(s) == {s[i] : i \in 1..Len(s)}

----------------------------------------------------------------------------
(* Word and line helpers (main.go:510-634)                                 *)

isWordByte(b) == b \notin Blank

RECURSIVE SkipLeft(_, _, _)
\* largest run to the left of i whose bytes satisfy: (byte \in Blank) = blank
SkipLeft(line, i, blank) ==
    IF i > 0 /\ ((line[i] \in Blank) = blank) THEN SkipLeft(line, i - 1, blank) ELSE i

RECURSIVE SkipRight(_, _, _)
SkipRight(line, i, blank) ==
    IF i < Len(line) /\ ((line[i + 1] \in Blank) = blank) THEN SkipRight(line, i + 1, blank) ELSE i

wordLeft(line, col) ==
    IF col <= 0 THEN 0
    ELSE SkipLeft(line, SkipLeft(line, col, TRUE), FALSE)

\* wordRight moving in the direction of wordLeft
wordRightBackward(line, col) == wordLeft(line, col)

wordRight(line, col) ==
    IF col >= Len(line) THEN Len(line)
    ELSE SkipRight(line, SkipRight(line, col, TRUE), FALSE)

\* a cursor position
Pos(r, c) == [row |-> r, col |-> c]

moveWordLeftLines(lines, row, col) ==
    IF row < 0 \/ row >= Len(lines) THEN Pos(row, col)
    ELSE IF col > 0 THEN Pos(row, wordLeft(lines[row + 1], col))
    ELSE IF row > 0 THEN Pos(row - 1, wordLeft(lines[row], Len(lines[row])))
    ELSE Pos(row, col)

moveWordRightLines(lines, row, col) ==
    IF row < 0 \/ row >= Len(lines) THEN Pos(row, col)
    ELSE IF col < Len(lines[row + 1]) THEN Pos(row, wordRight(lines[row + 1], col))
    ELSE IF row < Len(lines) - 1 THEN Pos(row + 1, wordRight(lines[row + 2], 0))
    ELSE Pos(row, col)

lineLeft(lines, row, col) ==
    IF row < 0 \/ row >= Len(lines) THEN Pos(row, col)
    ELSE IF col > 0 THEN Pos(row, 0)
    ELSE IF row > 0 THEN Pos(row - 1, 0)
    ELSE Pos(row, col)

lineRight(lines, row, col) ==
    IF row < 0 \/ row >= Len(lines) THEN Pos(row, col)
    ELSE IF col < Len(lines[row + 1]) THEN Pos(row, Len(lines[row + 1]))
    ELSE IF row < Len(lines) - 1 THEN Pos(row + 1, Len(lines[row + 2]))
    ELSE Pos(row, col)

\* a single-line field: text and cursor
Fld(t, c) == [text |-> t, col |-> c]

deleteWordBackward(line, col) ==
    IF col <= 0 THEN Fld(line, col)
    ELSE LET newCol == wordLeft(line, col) IN
         Fld(Slice(line, 0, newCol) \o Slice(line, col, Len(line)), newCol)

deleteLineBackward(line, col) ==
    IF col <= 0 THEN Fld(line, col)
    ELSE Fld(Slice(line, col, Len(line)), 0)

(* The editing steps the three key handlers repeat inline on a multi-line  *)
(* buffer; a buffer is [rows, cur].                                        *)

Buf(rows, cur) == [rows |-> rows, cur |-> cur]

SetRow(rows, row, line) == [rows EXCEPT ![row + 1] = line]

\* line[:col] + r + line[col:], cursor advanced by len(r)
InsertText(b, r) ==
    LET line == b.rows[b.cur.row + 1] IN
    Buf(SetRow(b.rows, b.cur.row,
               Slice(line, 0, b.cur.col) \o r \o Slice(line, b.cur.col, Len(line))),
        Pos(b.cur.row, b.cur.col + Len(r)))

\* split the current row at the cursor (main.go:825-830, 1210-1215, 1457-1462)
InsertNewline(b) ==
    LET line   == b.rows[b.cur.row + 1]
        before == Slice(line, 0, b.cur.col)
        after  == Slice(line, b.cur.col, Len(line))
    IN Buf(SubSeq(b.rows, 1, b.cur.row) \o <<before, after>>
             \o SubSeq(b.rows, b.cur.row + 2, Len(b.rows)),
           Pos(b.cur.row + 1, 0))

\* main.go:943-954, 1226-1259, 1482-1493
BackspaceChar(b) ==
    IF b.cur.col > 0 THEN
        LET line == b.rows[b.cur.row + 1] IN
        Buf(SetRow(b.rows, b.cur.row,
                   Slice(line, 0, b.cur.col - 1) \o Slice(line, b.cur.col, Len(line))),
            Pos(b.cur.row, b.cur.col - 1))
    ELSE IF b.cur.row > 0 THEN
        LET prev == b.rows[b.cur.row]
            cur  == b.rows[b.cur.row + 1]
        IN Buf(SubSeq(b.rows, 1, b.cur.row - 1) \o <<prev \o cur>>
                 \o SubSeq(b.rows, b.cur.row + 2, Len(b.rows)),
               Pos(b.cur.row - 1, Len(prev)))
    ELSE b

BackspaceWord(b) ==
    LET f == deleteWordBackward(b.rows[b.cur.row + 1], b.cur.col) IN
    Buf(SetRow(b.rows, b.cur.row, f.text), Pos(b.cur.row, f.col))

BackspaceLine(b) ==
    LET f == deleteLineBackward(b.rows[b.cur.row + 1], b.cur.col) IN
    Buf(SetRow(b.rows, b.cur.row, f.text), Pos(b.cur.row, f.col))

MoveCharLeft(b) ==
    IF b.cur.col > 0 THEN Buf(b.rows, Pos(b.cur.row, b.cur.col - 1))
    ELSE IF b.cur.row > 0 THEN Buf(b.rows, Pos(b.cur.row - 1, Len(b.rows[b.cur.row])))
    ELSE b

MoveCharRight(b) ==
    IF b.cur.col < Len(b.rows[b.cur.row + 1]) THEN Buf(b.rows, Pos(b.cur.row, b.cur.col + 1))
    ELSE IF b.cur.row < Len(b.rows) - 1 THEN Buf(b.rows, Pos(b.cur.row + 1, 0))
    ELSE b

\* plain Up / Down inside a buffer: previous / next row, column clamped
MoveRowUp(b) ==
    IF b.cur.row > 0 THEN
        LET n == Len(b.rows[b.cur.row]) IN
        Buf(b.rows, Pos(b.cur.row - 1, IF b.cur.col > n THEN n ELSE b.cur.col))
    ELSE b

MoveRowDown(b) ==
    IF b.cur.row < Len(b.rows) - 1 THEN
        LET n == Len(b.rows[b.cur.row + 2]) IN
        Buf(b.rows, Pos(b.cur.row + 1, IF b.cur.col > n THEN n ELSE b.cur.col))
    ELSE b

\* buffer loaded from a history entry, cursor at its end
LoadEntry(entry) ==
    LET rows == SplitLines(entry) IN
    Buf(rows, Pos(Len(rows) - 1, Len(rows[Len(rows)])))

\* single-line fields (branch, task, new-task name)
FldInsert(f, r) ==
    Fld(Slice(f.text, 0, f.col) \o r \o Slice(f.text, f.col, Len(f.text)), f.col + Len(r))

FldBackspace(f) ==
    IF f.col > 0 /\ Len(f.text) > 0
    THEN Fld(Slice(f.text, 0, f.col - 1) \o Slice(f.text, f.col, Len(f.text)), f.col - 1)
    ELSE f

----------------------------------------------------------------------------
(* History Store (main.go:193-208)                                         *)

\* pushHistorySlice without the cut to historyMax
pushHistoryNoCut(h, e) ==
    LET entry == TrimSpace(e) IN
    IF entry = <<>> THEN h
    ELSE IF Len(h) > 0 /\ h[1] = entry THEN h
    ELSE <<entry>> \o h

\* pushHistorySlice without the test against the most recent entry
pushHistoryNoDedup(h, e) ==
    LET entry == TrimSpace(e) IN
    IF entry = <<>> THEN h
    ELSE LET newH == <<entry>> \o h IN
         IF Len(newH) > historyMax THEN SubSeq(newH, 1, historyMax) ELSE newH

\* pushHistorySlice keeping the pushed entry alone
pushHistorySliceLatest(h, e) ==
    LET entry == TrimSpace(e) IN
    IF entry = <<>> THEN h
    ELSE IF Len(h) > 0 /\ h[1] = entry THEN h
    ELSE <<entry>>

pushHistorySlice(h, e) ==
    LET entry == TrimSpace(e) IN
    IF entry = <<>> THEN h
    ELSE IF Len(h) > 0 /\ h[1] = entry THEN h
    ELSE LET newH == <<entry>> \o h IN
         IF Len(newH) > historyMax THEN SubSeq(newH, 1, historyMax) ELSE newH

----------------------------------------------------------------------------
(* Provider catalog (initialModel, main.go:399-406, 450).  The model names *)
(* are shortened to one letter and the lists to two and one entries; "a"   *)
(* is offered by both providers, as gpt-5 is in the source.                *)

providers == <<"github-copilot", "OpenAI">>

models == [p \in Range(providers) |->
              IF p = "github-copilot" THEN << <<"a">>, <<"b">> >> ELSE << <<"a">> >>]

ModelNames == UNION {Range(models[p]) : p \in Range(providers)}

\* the working directory's base name (filepath.Base(cwd))
Repo == <<"r">>

currentProvider(mm) == providers[mm.providerIndex + 1]

providerModels(mm) == models[currentProvider(mm)]

RECURSIVE Repeat(_, _)
Repeat(x, n) == IF n <= 0 THEN <<>> ELSE <<x>> \o Repeat(x, n - 1)

RECURSIVE ExpandFrom(_, _, _)
ExpandFrom(names, sel, i) ==
    IF i > Len(names) THEN <<>>
    ELSE Repeat(names[i], sel[names[i]]) \o ExpandFrom(names, sel, i + 1)

\* selectedModels taking a model only from its second unit on (c > 1)
selectedModelsFromSecond(mm) ==
    ExpandFrom(providerModels(mm),
               [n \in DOMAIN mm.selected[currentProvider(mm)] |->
                   mm.selected[currentProvider(mm)][n] - 1], 1)

\* main.go:2748-2763
selectedModels(mm) ==
    ExpandFrom(providerModels(mm), mm.selected[currentProvider(mm)], 1)

\* main.go:247-270, on the branch and task captured by the command
identifierFor(branch, task, modelName) ==
    LET parts == SelectSeq(<<Repo, TrimSpace(branch), TrimSpace(task), TrimSpace(modelName)>>,
                           LAMBDA x : x # <<>>)
    IN JoinWith(parts, <<"_">>)

\* InstanceLabel numbering the first occurrence too
InstanceLabelNumbered(baseName, seq) == baseName \o <<"-">> \o Itoa(seq)

\* the instance label of the seq-th occurrence of baseName (main.go:1667-1672)
InstanceLabel(baseName, seq) ==
    IF seq > 1 THEN baseName \o <<"-">> \o Itoa(seq) ELSE baseName

\* number of occurrences of x in s[1..n]
RECURSIVE CountIn(_, _, _)
CountIn(s, x, n) ==
    IF n <= 0 THEN 0 ELSE CountIn(s, x, n - 1) + (IF s[n] = x THEN 1 ELSE 0)

\* labels of a launch of the base-model list ms, in launch order
LaunchLabels(ms) == [i \in 1..Len(ms) |-> InstanceLabel(ms[i], CountIn(ms, ms[i], i))]

----------------------------------------------------------------------------
(* Autocomplete (main.go:2765-2895)                                        *)

Found(prefix, start) == [prefix |-> prefix, start |-> start]

RECURSIVE ScanMarker(_, _, _)
\* the loop of main.go:2814-2819
ScanMarker(line, start, cursorPos) ==
    IF start >= 0 /\ line[start + 1] \notin Blank THEN
        IF line[start + 1] \in {"/", "@"} THEN Found(Slice(line, start, cursorPos), start)
        ELSE ScanMarker(line, start - 1, cursorPos)
    ELSE Found(<<>>, 0)

getAutocompletePrefix(line, cursorPos0) ==
    LET cursorPos    == IF cursorPos0 > Len(line) THEN Len(line) ELSE cursorPos0
        curStart     == SkipLeft(line, cursorPos, FALSE)
        currentToken == Slice(line, curStart, cursorPos)
        prevEnd      == SkipLeft(line, curStart, TRUE) - 1
        prevStart    == SkipLeft(line, prevEnd, FALSE)
        prevToken    == Slice(line, prevStart, prevEnd + 1)
        start        == cursorPos - 1
    IN IF prevEnd >= 0 /\ Len(prevToken) > 0 /\ prevToken[1] \in {"/", "@"}
       THEN Found(prevToken \o <<" ">> \o currentToken, curStart)
       ELSE IF start < 0 THEN Found(<<>>, 0)
       ELSE IF line[start + 1] \in {"/", "@"}
            THEN LET st == SkipLeft(line, start, FALSE) IN Found(Slice(line, st, cursorPos), st)
       ELSE ScanMarker(line, start, cursorPos)

commands == << <<"/","b","a","i","l">>, <<"/","n","e","x","t">>, <<"/","w","r","a","p">> >>

NextSp == <<"/","n","e","x","t"," ">>
WrapSp == <<"/","w","r","a","p"," ">>

\* Candidates taking the selected models although instances are registered
CandidatesSelected(mm, ord) == selectedModels(mm)

(* `for name := range m.modelToWorktree` visits the keys in an order the   *)
(* Go runtime chooses; ord is that order, an input of the key handler.     *)
Candidates(mm, ord) ==
    LET opened == SelectSeq(ord, LAMBDA l : l \in DOMAIN mm.modelToWorktree) IN
    IF Len(opened) = 0 THEN selectedModels(mm) ELSE opened

getAutocompleteOptions(mm, prefix, ord) ==
    IF Len(prefix) = 0 THEN <<>>
    ELSE IF prefix[1] = "/" THEN
        IF HasPrefix(prefix, NextSp) \/ HasPrefix(prefix, WrapSp) THEN
            LET parts        == SplitN2(prefix)
                searchPrefix == IF Len(prefix) > 6 /\ Len(parts) = 2 THEN parts[2] ELSE <<>>
            IN SelectSeq(Candidates(mm, ord), LAMBDA c : HasPrefix(c, searchPrefix))
        ELSE SelectSeq(commands, LAMBDA c : HasPrefix(c, prefix))
    ELSE IF prefix[1] = "@" THEN
        LET searchPrefix == Slice(prefix, 1, Len(prefix))
            pick == SelectSeq(Candidates(mm, ord), LAMBDA c : HasPrefix(c, searchPrefix))
        IN [i \in 1..Len(pick) |-> <<"@">> \o pick[i]]
    ELSE <<>>

----------------------------------------------------------------------------
(* Commands and messages                                                   *)

MapPut(f, k, v) == [x \in (DOMAIN f) \cup {k} |-> IF x = k THEN v ELSE f[x]]

EmptyMap == [x \in {} |-> 0]

(* A tea.Cmd is a closure over a copy of the model.  The copy holds the    *)
(* strings, integers and slice headers as they were when the handler       *)
(* returned (branch, task, providerIndex, the first nPanes / nWorktrees    *)
(* entries of the append-only createdPanes / createdWorktrees); a map in   *)
(* the copy is the same map as in the session, so it is read when the      *)
(* command runs.                                                           *)
Cmd(kind, mm, ms, label, pane, prompt) ==
    [kind          |-> kind,
     models        |-> ms,
     label         |-> label,
     pane          |-> pane,
     prompt        |-> prompt,
     branch        |-> mm.branch,
     task          |-> mm.task,
     providerIndex |-> mm.providerIndex,
     nPanes        |-> Len(mm.createdPanes),
     nWorktrees    |-> Len(mm.createdWorktrees)]

NoCmd ==
    [kind |-> "none", models |-> <<>>, label |-> <<>>, pane |-> 0, prompt |-> <<>>,
     branch |-> <<>>, task |-> <<>>, providerIndex |-> 0, nPanes |-> 0, nWorktrees |-> 0]

openPanesCmd(ms, mm)                 == Cmd("openPanes", mm, ms, <<>>, 0, <<>>)
bailCmd(mm)                          == Cmd("bail", mm, <<>>, <<>>, 0, <<>>)
nextCmd(mm, modelName)               == Cmd("next", mm, <<>>, modelName, 0, <<>>)
wrapCmd(mm, modelName)               == Cmd("wrap", mm, <<>>, modelName, 0, <<>>)
sendToModelPaneCmd(paneID, modelName, prompt, mm) ==
                                        Cmd("send", mm, <<>>, modelName, paneID, prompt)
\* cleanupCmd capturing none of the created panes and worktrees
cleanupCmdNothing(mm) ==
    [Cmd("cleanup", mm, <<>>, <<>>, 0, <<>>) EXCEPT !.nPanes = 0, !.nWorktrees = 0]
cleanupCmd(mm)                       == Cmd("cleanup", mm, <<>>, <<>>, 0, <<>>)
\* tea.Tick(escDelay, ...) (main.go:749)
escTick                              == [NoCmd EXCEPT !.kind = "escTick"]
quitCmd                              == [NoCmd EXCEPT !.kind = "quit"]

Msg(type) ==
    [type |-> type, count |-> 0, err |-> FALSE, paneIDs |-> <<>>, worktrees |-> <<>>,
     modelNames |-> <<>>, providers |-> <<>>, baseModels |-> <<>>]

\* what a handler returns: the new model and a command
Res(mm, c) == [m |-> mm, cmd |-> c]

(* Keys.  type is the tea.KeyType, alt the Alt modifier, runes the text of *)
(* a KeyRunes message (a paste delivers several runes in one message).     *)
Key(type) == [type |-> type, alt |-> FALSE, runes |-> <<>>]
Runes(r)  == [type |-> "Runes", alt |-> FALSE, runes |-> r]
AltKey(k) == [k EXCEPT !.alt = TRUE]

\* msg.Runes as the handlers see it: KeySpace carries one blank
RunesOf(k) == IF k.type = "Space" THEN <<" ">> ELSE k.runes

\* the Alt-b / Alt-f or ESC b / ESC f test (main.go:713, 1358, 1561)
IsWordMove(mm, k) ==
    /\ Len(RunesOf(k)) = 1
    /\ RunesOf(k)[1] \in {"b", "f"}
    /\ (k.alt \/ mm.pendingEsc)

----------------------------------------------------------------------------
(* Buffers of the session                                                  *)

PromptBuf(mm)    == Buf(mm.input, mm.cursor)
IterBuf(mm)      == Buf(mm.iterationInput, mm.iterationCursor)
NewTaskBuf(mm)   == Buf(mm.newTaskPrompt, mm.newTaskCursor)
BranchFld(mm)    == Fld(mm.branch, mm.branchCursor)
TaskFld(mm)      == Fld(mm.task, mm.taskCursor)
NewNameFld(mm)   == Fld(mm.newTaskName, mm.newTaskNameCursor)

SetPrompt(mm, b)  == [mm EXCEPT !.input = b.rows, !.cursor = b.cur]
SetIter(mm, b)    == [mm EXCEPT !.iterationInput = b.rows, !.iterationCursor = b.cur]
SetNewTask(mm, b) == [mm EXCEPT !.newTaskPrompt = b.rows, !.newTaskCursor = b.cur]
SetBranch(mm, f)  == [mm EXCEPT !.branch = f.text, !.branchCursor = f.col]
SetTask(mm, f)    == [mm EXCEPT !.task = f.text, !.taskCursor = f.col]
SetNewName(mm, f) == [mm EXCEPT !.newTaskName = f.text, !.newTaskNameCursor = f.col]

\* modelsHover clamped into the provider's list (main.go:847-852, 924-929)
ClampHover(mm) ==
    LET n == Len(providerModels(mm)) IN
    IF mm.modelsHover < 0 THEN 0
    ELSE IF mm.modelsHover >= n THEN n - 1
    ELSE mm.modelsHover

\* selected[p][name] += d for the hovered model
BumpSelected(mm, d) ==
    LET p    == currentProvider(mm)
        h    == ClampHover(mm)
        name == providerModels(mm)[h + 1]
    IN [mm EXCEPT !.modelsHover = h, !.selected[p][name] = @ + d]

----------------------------------------------------------------------------
(* model.Update, tea.KeyMsg on the Setup screen (main.go:712-1120).  The   *)
(* dispatch of main.go:705-710 sends every screen other than Iteration and *)
(* NewTask here, the Progress screen included.                             *)

\* RestoreDraft giving the empty row whatever the draft
RestoreDraftEmpty(draft) == Buf(<< <<>> >>, Pos(0, 0))

\* buffer restored when history navigation is left (main.go:1062-1069)
RestoreDraft(draft) ==
    LET rows == IF draft # <<>> THEN draft ELSE << <<>> >> IN
    Buf(rows, Pos(Len(rows) - 1, Len(rows[Len(rows)])))

SetupWordMove(mm, k) ==
    LET back == RunesOf(k)[1] = "b"
        m1   == [mm EXCEPT !.pendingEsc = FALSE]
    IN CASE mm.focus = "focusBranch" ->
              [m1 EXCEPT !.branchCursor = IF back THEN wordLeft(mm.branch, mm.branchCursor)
                                          ELSE wordRight(mm.branch, mm.branchCursor)]
         [] mm.focus = "focusTask" ->
              [m1 EXCEPT !.taskCursor = IF back THEN wordLeft(mm.task, mm.taskCursor)
                                        ELSE wordRight(mm.task, mm.taskCursor)]
         [] mm.focus = "focusPrompt" ->
              [m1 EXCEPT !.cursor = IF back
                                    THEN moveWordLeftLines(mm.input, mm.cursor.row, mm.cursor.col)
                                    ELSE moveWordRightLines(mm.input, mm.cursor.row, mm.cursor.col)]
         [] OTHER -> m1

SetupTab(mm) ==
    CASE mm.focus = "focusBranch"   -> [mm EXCEPT !.focus = "focusTask"]
      [] mm.focus = "focusTask"     -> [mm EXCEPT !.focus = "focusPrompt"]
      [] mm.focus = "focusPrompt"   -> [mm EXCEPT !.focus = "focusProvider",
                                                  !.providerHover = mm.providerIndex]
      [] mm.focus = "focusProvider" -> [mm EXCEPT !.providerOpen = FALSE,
                                                  !.focus = "focusModels",
                                                  !.modelsHover = 0]
      [] mm.focus = "focusModels"   -> [mm EXCEPT !.modelsOpen = FALSE,
                                                  !.focus = "focusBranch"]

\* main.go:799-838
SetupEnter(mm) ==
    CASE mm.focus \in {"focusBranch", "focusTask"} ->
            Res([mm EXCEPT !.focus = "focusPrompt"], NoCmd)
      [] mm.focus = "focusProvider" ->
            Res(IF mm.providerOpen
                THEN [mm EXCEPT !.providerIndex = mm.providerHover,
                                !.providerOpen = FALSE,
                                !.modelsHover = 0]
                ELSE [mm EXCEPT !.providerOpen = TRUE,
                                !.providerHover = mm.providerIndex],
                NoCmd)
      [] mm.focus = "focusModels" ->
            Res([mm EXCEPT !.modelsOpen = ~mm.modelsOpen,
                           !.modelsHover = IF ~mm.modelsOpen THEN 0 ELSE @],
                NoCmd)
      [] OTHER ->
            LET m1 == SetPrompt(mm, InsertNewline(PromptBuf(mm)))
                ms == selectedModels(m1)
            IN IF Len(ms) > 0 THEN Res(m1, openPanesCmd(ms, m1)) ELSE Res(m1, NoCmd)

\* main.go:840-877
SetupSpace(mm) ==
    IF mm.focus = "focusModels" /\ mm.modelsOpen THEN
        IF Len(providerModels(mm)) = 0 THEN mm ELSE BumpSelected(mm, 1)
    ELSE CASE mm.focus = "focusBranch" -> SetBranch(mm, FldInsert(BranchFld(mm), <<" ">>))
           [] mm.focus = "focusTask"   -> SetTask(mm, FldInsert(TaskFld(mm), <<" ">>))
           [] mm.focus = "focusPrompt" -> SetPrompt(mm, InsertText(PromptBuf(mm), <<" ">>))
           [] OTHER -> mm

\* SetupBackspace decrementing the hovered count whatever its value
SetupBackspaceNoFloor(mm, k) ==
    IF k.alt THEN
        CASE mm.focus = "focusBranch" ->
                SetBranch(mm, deleteWordBackward(mm.branch, mm.branchCursor))
          [] mm.focus = "focusTask" ->
                SetTask(mm, deleteWordBackward(mm.task, mm.taskCursor))
          [] mm.focus = "focusPrompt" ->
                SetPrompt(mm, BackspaceWord(PromptBuf(mm)))
          [] OTHER -> mm
    ELSE
        CASE mm.focus = "focusBranch" -> SetBranch(mm, FldBackspace(BranchFld(mm)))
          [] mm.focus = "focusTask"   -> SetTask(mm, FldBackspace(TaskFld(mm)))
          [] mm.focus = "focusProvider" -> [mm EXCEPT !.providerOpen = FALSE]
          [] mm.focus = "focusModels" ->
                IF mm.modelsOpen /\ Len(providerModels(mm)) > 0
                THEN BumpSelected(mm, -1)
                ELSE mm
          [] OTHER -> SetPrompt(mm, BackspaceChar(PromptBuf(mm)))

\* main.go:878-954
SetupBackspace(mm, k) ==
    IF k.alt THEN
        CASE mm.focus = "focusBranch" ->
                SetBranch(mm, deleteWordBackward(mm.branch, mm.branchCursor))
          [] mm.focus = "focusTask" ->
                SetTask(mm, deleteWordBackward(mm.task, mm.taskCursor))
          [] mm.focus = "focusPrompt" ->
                SetPrompt(mm, BackspaceWord(PromptBuf(mm)))
          [] OTHER -> mm
    ELSE
        CASE mm.focus = "focusBranch" -> SetBranch(mm, FldBackspace(BranchFld(mm)))
          [] mm.focus = "focusTask"   -> SetTask(mm, FldBackspace(TaskFld(mm)))
          [] mm.focus = "focusProvider" -> [mm EXCEPT !.providerOpen = FALSE]
          [] mm.focus = "focusModels" ->
                IF mm.modelsOpen /\ Len(providerModels(mm)) > 0 THEN
                    LET h    == ClampHover(mm)
                        name == providerModels(mm)[h + 1]
                    IN IF mm.selected[currentProvider(mm)][name] > 0
                       THEN BumpSelected(mm, -1)
                       ELSE [mm EXCEPT !.modelsHover = h]
                ELSE mm
          [] OTHER -> SetPrompt(mm, BackspaceChar(PromptBuf(mm)))

\* main.go:1011-1049
SetupUp(mm) ==
    CASE mm.focus = "focusPrompt" ->
            IF Len(mm.history) > 0 THEN
                IF mm.historyIndex = -1 THEN
                    [SetPrompt(mm, LoadEntry(mm.history[1]))
                        EXCEPT !.draftInput = mm.input, !.historyIndex = 0]
                ELSE IF mm.historyIndex < Len(mm.history) - 1 THEN
                    [SetPrompt(mm, LoadEntry(mm.history[mm.historyIndex + 2]))
                        EXCEPT !.historyIndex = mm.historyIndex + 1]
                ELSE mm
            ELSE SetPrompt(mm, MoveRowUp(PromptBuf(mm)))
      [] mm.focus = "focusProvider" ->
            IF ~mm.providerOpen
            THEN [mm EXCEPT !.providerOpen = TRUE, !.providerHover = mm.providerIndex]
            ELSE IF mm.providerHover > 0 THEN [mm EXCEPT !.providerHover = @ - 1]
            ELSE mm
      [] mm.focus = "focusModels" ->
            IF ~mm.modelsOpen
            THEN [mm EXCEPT !.modelsOpen = TRUE, !.modelsHover = 0]
            ELSE IF mm.modelsHover > 0 THEN [mm EXCEPT !.modelsHover = @ - 1]
            ELSE mm
      [] OTHER -> mm

\* main.go:1050-1092
SetupDown(mm) ==
    CASE mm.focus = "focusPrompt" ->
            IF mm.historyIndex # -1 THEN
                IF mm.historyIndex > 0 THEN
                    [SetPrompt(mm, LoadEntry(mm.history[mm.historyIndex]))
                        EXCEPT !.historyIndex = mm.historyIndex - 1]
                ELSE [SetPrompt(mm, RestoreDraft(mm.draftInput)) EXCEPT !.historyIndex = -1]
            ELSE SetPrompt(mm, MoveRowDown(PromptBuf(mm)))
      [] mm.focus = "focusProvider" ->
            IF ~mm.providerOpen
            THEN [mm EXCEPT !.providerOpen = TRUE, !.providerHover = mm.providerIndex]
            ELSE IF mm.providerHover < Len(providers) - 1 THEN [mm EXCEPT !.providerHover = @ + 1]
            ELSE mm
      [] mm.focus = "focusModels" ->
            IF ~mm.modelsOpen
            THEN [mm EXCEPT !.modelsOpen = TRUE, !.modelsHover = 0]
            ELSE IF Len(providerModels(mm)) > 0 /\ mm.modelsHover < Len(providerModels(mm)) - 1
                 THEN [mm EXCEPT !.modelsHover = @ + 1]
            ELSE mm
      [] OTHER -> mm

\* main.go:1093-1117
SetupRunes(mm, k) ==
    IF Len(k.runes) > 0 THEN
        LET m1 == [mm EXCEPT !.pendingEsc = FALSE] IN
        CASE mm.focus = "focusBranch" -> SetBranch(m1, FldInsert(BranchFld(m1), k.runes))
          [] mm.focus = "focusTask"   -> SetTask(m1, FldInsert(TaskFld(m1), k.runes))
          [] mm.focus \in {"focusProvider", "focusModels"} -> m1
          [] OTHER -> SetPrompt(m1, InsertText(PromptBuf(m1), k.runes))
    ELSE mm

updateSetup(mm, k) ==
    IF IsWordMove(mm, k) THEN Res(SetupWordMove(mm, k), NoCmd)
    ELSE CASE k.type = "CtrlC" -> Res(mm, cleanupCmd(mm))
           [] k.type = "Esc"   -> Res([mm EXCEPT !.pendingEsc = TRUE], escTick)
           [] k.type = "CtrlA" ->
                Res(CASE mm.focus = "focusBranch" -> [mm EXCEPT !.branchCursor = 0]
                      [] mm.focus = "focusTask"   -> [mm EXCEPT !.taskCursor = 0]
                      [] mm.focus = "focusPrompt" ->
                            [mm EXCEPT !.cursor = lineLeft(mm.input, mm.cursor.row, mm.cursor.col)]
                      [] OTHER -> mm,
                    NoCmd)
           [] k.type = "CtrlE" ->
                Res(CASE mm.focus = "focusBranch" -> [mm EXCEPT !.branchCursor = Len(mm.branch)]
                      [] mm.focus = "focusTask"   -> [mm EXCEPT !.taskCursor = Len(mm.task)]
                      [] mm.focus = "focusPrompt" ->
                            [mm EXCEPT !.cursor = lineRight(mm.input, mm.cursor.row, mm.cursor.col)]
                      [] OTHER -> mm,
                    NoCmd)
           [] k.type \in {"Tab", "ShiftTab"} -> Res(SetupTab(mm), NoCmd)
           [] k.type = "Enter" -> SetupEnter(mm)
           [] k.type = "Space" -> Res(SetupSpace(mm), NoCmd)
           [] k.type = "Backspace" -> Res(SetupBackspace(mm, k), NoCmd)
           [] k.type = "CtrlU" ->
                Res(CASE mm.focus = "focusBranch" ->
                            SetBranch(mm, deleteLineBackward(mm.branch, mm.branchCursor))
                      [] mm.focus = "focusTask" ->
                            SetTask(mm, deleteLineBackward(mm.task, mm.taskCursor))
                      [] mm.focus = "focusPrompt" -> SetPrompt(mm, BackspaceLine(PromptBuf(mm)))
                      [] OTHER -> mm,
                    NoCmd)
           [] k.type = "Left" ->
                Res(CASE mm.focus = "focusBranch" ->
                            [mm EXCEPT !.branchCursor = IF @ > 0 THEN @ - 1 ELSE @]
                      [] mm.focus = "focusTask" ->
                            [mm EXCEPT !.taskCursor = IF @ > 0 THEN @ - 1 ELSE @]
                      [] OTHER -> SetPrompt(mm, MoveCharLeft(PromptBuf(mm))),
                    NoCmd)
           [] k.type = "Right" ->
                Res(CASE mm.focus = "focusBranch" ->
                            [mm EXCEPT !.branchCursor = IF @ < Len(mm.branch) THEN @ + 1 ELSE @]
                      [] mm.focus = "focusTask" ->
                            [mm EXCEPT !.taskCursor = IF @ < Len(mm.task) THEN @ + 1 ELSE @]
                      [] OTHER -> SetPrompt(mm, MoveCharRight(PromptBuf(mm))),
                    NoCmd)
           [] k.type = "Up"    -> Res(SetupUp(mm), NoCmd)
           [] k.type = "Down"  -> Res(SetupDown(mm), NoCmd)
           [] OTHER            -> Res(SetupRunes(mm, k), NoCmd)

----------------------------------------------------------------------------
(* model.updateIteration (main.go:1123-1406)                               *)

AcOff(mm) == [mm EXCEPT !.autocompleteActive = FALSE, !.autocompleteOptions = <<>>]

\* autocomplete recomputed after an edit (main.go:1231-1249, 1383-1401)
AcRefresh(mm, ord) ==
    LET line   == mm.iterationInput[mm.iterationCursor.row + 1]
        prefix == getAutocompletePrefix(line, mm.iterationCursor.col).prefix
        opts   == getAutocompleteOptions(mm, prefix, ord)
    IN IF prefix # <<>> /\ prefix[1] \in {"/", "@"} THEN
           IF Len(opts) > 0 THEN
               IF Len(opts) = 1 /\ opts[1] = prefix THEN AcOff(mm)
               ELSE [mm EXCEPT !.autocompleteOptions = opts,
                               !.autocompleteActive = TRUE,
                               !.autocompleteIndex = 0]
           ELSE [mm EXCEPT !.autocompleteOptions = opts, !.autocompleteActive = FALSE]
       ELSE AcOff(mm)

\* main.go:1140-1153
IterTab(mm, ord) ==
    IF mm.autocompleteActive /\ Len(mm.autocompleteOptions) > 0 THEN
        [mm EXCEPT !.autocompleteIndex = (@ + 1) % Len(mm.autocompleteOptions)]
    ELSE
        LET line   == mm.iterationInput[mm.iterationCursor.row + 1]
            prefix == getAutocompletePrefix(line, mm.iterationCursor.col).prefix
            opts   == getAutocompleteOptions(mm, prefix, ord)
        IN IF prefix # <<>> THEN
               IF Len(opts) > 0
               THEN [mm EXCEPT !.autocompleteOptions = opts,
                               !.autocompleteActive = TRUE,
                               !.autocompleteIndex = 0]
               ELSE [mm EXCEPT !.autocompleteOptions = opts]
           ELSE mm

\* Enter while autocomplete is active (main.go:1155-1165)
IterAccept(mm) ==
    LET line  == mm.iterationInput[mm.iterationCursor.row + 1]
        f     == getAutocompletePrefix(line, mm.iterationCursor.col)
        compl == mm.autocompleteOptions[mm.autocompleteIndex + 1]
        m1    == IF f.prefix # <<>>
                 THEN [mm EXCEPT
                         !.iterationInput[mm.iterationCursor.row + 1] =
                             Slice(line, 0, f.start) \o compl
                               \o Slice(line, mm.iterationCursor.col, Len(line)),
                         !.iterationCursor.col = f.start + Len(compl)]
                 ELSE mm
    IN AcOff(m1)

\* IsFollowUp without the registry lookup of main.go:1197
IsFollowUpAnyLabel(mm, currentLine) ==
    /\ HasPrefix(currentLine, <<"@">>)
    /\ Len(SplitN2(currentLine)) = 2

\* the @ branch of Enter (main.go:1192-1208): TRUE when a follow-up is sent
IsFollowUp(mm, currentLine) ==
    /\ HasPrefix(currentLine, <<"@">>)
    /\ Len(SplitN2(currentLine)) = 2
    /\ TrimPrefix(SplitN2(currentLine)[1], <<"@">>) \in DOMAIN mm.modelToPaneID

\* IterSubmit with a follow-up appended to the prompt log of every instance
IterSubmitAllLogs(mm) ==
    LET currentLine == TrimSpace(JoinLines(mm.iterationInput))
        nextArg     == TrimSpace(TrimPrefix(currentLine, NextSp))
        wrapArg     == TrimSpace(TrimPrefix(currentLine, WrapSp))
    IN IF currentLine = <<"/","b","a","i","l">> THEN
           LET m1 == [mm EXCEPT !.screen = "Progress"] IN Res(m1, bailCmd(m1))
       ELSE IF HasPrefix(currentLine, NextSp) /\ nextArg # <<>> THEN
           LET m1 == [mm EXCEPT !.screen = "Progress"] IN Res(m1, nextCmd(m1, nextArg))
       ELSE IF HasPrefix(currentLine, WrapSp) /\ wrapArg # <<>> THEN
           LET m1 == [mm EXCEPT !.screen = "Progress"] IN Res(m1, wrapCmd(m1, wrapArg))
       ELSE IF IsFollowUp(mm, currentLine) THEN
           LET parts     == SplitN2(currentLine)
               modelName == TrimPrefix(parts[1], <<"@">>)
               prompt    == parts[2]
               m1 == [mm EXCEPT
                        !.modelPrompts = [l \in DOMAIN @ |-> Append(@[l], prompt)],
                        !.history = pushHistorySlice(@, prompt),
                        !.iterationInput = << <<>> >>,
                        !.iterationCursor = Pos(0, 0)]
           IN Res(m1, sendToModelPaneCmd(mm.modelToPaneID[modelName], modelName, prompt, m1))
       ELSE Res(SetIter(mm, InsertNewline(IterBuf(mm))), NoCmd)

\* Enter while autocomplete is inactive (main.go:1167-1215)
IterSubmit(mm) ==
    LET currentLine == TrimSpace(JoinLines(mm.iterationInput))
        nextArg     == TrimSpace(TrimPrefix(currentLine, NextSp))
        wrapArg     == TrimSpace(TrimPrefix(currentLine, WrapSp))
    IN IF currentLine = <<"/","b","a","i","l">> THEN
           LET m1 == [mm EXCEPT !.screen = "Progress"] IN Res(m1, bailCmd(m1))
       ELSE IF HasPrefix(currentLine, NextSp) /\ nextArg # <<>> THEN
           LET m1 == [mm EXCEPT !.screen = "Progress"] IN Res(m1, nextCmd(m1, nextArg))
       ELSE IF HasPrefix(currentLine, WrapSp) /\ wrapArg # <<>> THEN
           LET m1 == [mm EXCEPT !.screen = "Progress"] IN Res(m1, wrapCmd(m1, wrapArg))
       ELSE IF IsFollowUp(mm, currentLine) THEN
           LET parts     == SplitN2(currentLine)
               modelName == TrimPrefix(parts[1], <<"@">>)
               prompt    == parts[2]
               log       == IF modelName \in DOMAIN mm.modelPrompts
                            THEN mm.modelPrompts[modelName] ELSE <<>>
               m1 == [mm EXCEPT
                        !.modelPrompts = MapPut(@, modelName, Append(log, prompt)),
                        !.history = pushHistorySlice(@, prompt),
                        !.iterationInput = << <<>> >>,
                        !.iterationCursor = Pos(0, 0)]
               paneID == IF modelName \in DOMAIN mm.modelToPaneID
                         THEN mm.modelToPaneID[modelName] ELSE 0
           IN Res(m1, sendToModelPaneCmd(paneID, modelName, prompt, m1))
       ELSE Res(SetIter(mm, InsertNewline(IterBuf(mm))), NoCmd)

\* main.go:1286-1320
IterUp(mm) ==
    IF mm.autocompleteActive /\ Len(mm.autocompleteOptions) > 0 THEN
        [mm EXCEPT !.autocompleteIndex =
            IF @ - 1 < 0 THEN Len(mm.autocompleteOptions) - 1 ELSE @ - 1]
    ELSE IF Len(mm.history) > 0 THEN
        IF mm.iterationHistoryIndex = -1 THEN
            [SetIter(mm, LoadEntry(mm.history[1]))
                EXCEPT !.draftIterationInput = mm.iterationInput,
                       !.iterationHistoryIndex = 0]
        ELSE IF mm.iterationHistoryIndex < Len(mm.history) - 1 THEN
            [SetIter(mm, LoadEntry(mm.history[mm.iterationHistoryIndex + 2]))
                EXCEPT !.iterationHistoryIndex = mm.iterationHistoryIndex + 1]
        ELSE SetIter(mm, MoveRowUp(IterBuf(mm)))
    ELSE SetIter(mm, MoveRowUp(IterBuf(mm)))

\* main.go:1321-1349
IterDown(mm) ==
    IF mm.autocompleteActive /\ Len(mm.autocompleteOptions) > 0 THEN
        [mm EXCEPT !.autocompleteIndex = (@ + 1) % Len(mm.autocompleteOptions)]
    ELSE IF mm.iterationHistoryIndex # -1 THEN
        IF mm.iterationHistoryIndex > 0 THEN
            [SetIter(mm, LoadEntry(mm.history[mm.iterationHistoryIndex]))
                EXCEPT !.iterationHistoryIndex = mm.iterationHistoryIndex - 1]
        ELSE [SetIter(mm, RestoreDraft(mm.draftIterationInput))
                EXCEPT !.iterationHistoryIndex = -1]
    ELSE SetIter(mm, MoveRowDown(IterBuf(mm)))

\* main.go:1217-1259
IterBackspace(mm, k, ord) ==
    IF k.alt THEN SetIter(AcOff(mm), BackspaceWord(IterBuf(mm)))
    ELSE IF mm.iterationCursor.col > 0 THEN AcRefresh(SetIter(mm, BackspaceChar(IterBuf(mm))), ord)
    ELSE IF mm.iterationCursor.row > 0 THEN SetIter(AcOff(mm), BackspaceChar(IterBuf(mm)))
    ELSE mm

\* main.go:1356-1403
IterRunes(mm, k, ord) ==
    IF IsWordMove(mm, k) THEN
        LET m1 == AcOff([mm EXCEPT !.pendingEsc = FALSE]) IN
        [m1 EXCEPT !.iterationCursor =
            IF k.runes[1] = "b"
            THEN moveWordLeftLines(mm.iterationInput, mm.iterationCursor.row, mm.iterationCursor.col)
            ELSE moveWordRightLines(mm.iterationInput, mm.iterationCursor.row, mm.iterationCursor.col)]
    ELSE IF Len(k.runes) > 0 THEN
        LET m1 == SetIter(mm, InsertText(IterBuf(mm), k.runes)) IN
        IF k.runes \in {<<"/">>, <<"@">>} THEN
            LET opts == getAutocompleteOptions(m1, k.runes, ord) IN
            IF Len(opts) > 0
            THEN [m1 EXCEPT !.autocompleteOptions = opts,
                            !.autocompleteActive = TRUE,
                            !.autocompleteIndex = 0]
            ELSE [m1 EXCEPT !.autocompleteOptions = opts]
        ELSE AcRefresh(m1, ord)
    ELSE mm

updateIteration(mm, k, ord) ==
    CASE k.type = "CtrlC" -> Res(mm, cleanupCmd(mm))
      [] k.type = "Esc"   -> Res([mm EXCEPT !.pendingEsc = TRUE], escTick)
      [] k.type = "CtrlA" ->
            Res([AcOff(mm) EXCEPT !.iterationCursor =
                    lineLeft(mm.iterationInput, mm.iterationCursor.row, mm.iterationCursor.col)],
                NoCmd)
      [] k.type = "CtrlE" ->
            Res([AcOff(mm) EXCEPT !.iterationCursor =
                    lineRight(mm.iterationInput, mm.iterationCursor.row, mm.iterationCursor.col)],
                NoCmd)
      [] k.type = "Tab"   -> Res(IterTab(mm, ord), NoCmd)
      [] k.type = "Enter" ->
            IF mm.autocompleteActive /\ Len(mm.autocompleteOptions) > 0
            THEN Res(IterAccept(mm), NoCmd)
            ELSE IterSubmit(mm)
      [] k.type = "Backspace" -> Res(IterBackspace(mm, k, ord), NoCmd)
      [] k.type = "CtrlU" -> Res(SetIter(AcOff(mm), BackspaceLine(IterBuf(mm))), NoCmd)
      [] k.type = "Left"  -> Res(SetIter(AcOff(mm), MoveCharLeft(IterBuf(mm))), NoCmd)
      [] k.type = "Right" -> Res(SetIter(AcOff(mm), MoveCharRight(IterBuf(mm))), NoCmd)
      [] k.type = "Up"    -> Res(IterUp(mm), NoCmd)
      [] k.type = "Down"  -> Res(IterDown(mm), NoCmd)
      [] k.type = "Space" -> Res(SetIter(AcOff(mm), InsertText(IterBuf(mm), <<" ">>)), NoCmd)
      [] OTHER            -> Res(IterRunes(mm, k, ord), NoCmd)

----------------------------------------------------------------------------
(* model.updateNewTask (main.go:1408-1595)                                 *)

OnName(mm) == mm.newTaskFocus = "focusTask"

\* main.go:1436-1463
NewTaskEnter(mm) ==
    IF OnName(mm) THEN Res([mm EXCEPT !.newTaskFocus = "focusPrompt"], NoCmd)
    ELSE
        LET currentPrompt == TrimSpace(JoinLines(mm.newTaskPrompt))
            ms            == selectedModels(mm)
        IN IF currentPrompt # <<>> /\ Len(ms) > 0 THEN
               LET m1 == [mm EXCEPT !.task = mm.newTaskName,
                                    !.input = mm.newTaskPrompt,
                                    !.newTaskName = <<>>,
                                    !.newTaskNameCursor = 0,
                                    !.newTaskPrompt = << <<>> >>,
                                    !.newTaskCursor = Pos(0, 0)]
               IN Res(m1, openPanesCmd(ms, m1))
           ELSE Res(SetNewTask(mm, InsertNewline(NewTaskBuf(mm))), NoCmd)

\* main.go:1559-1593
NewTaskRunes(mm, k) ==
    IF IsWordMove(mm, k) THEN
        LET m1   == [mm EXCEPT !.pendingEsc = FALSE]
            back == k.runes[1] = "b"
        IN IF OnName(mm) THEN
               [m1 EXCEPT !.newTaskNameCursor =
                   IF back THEN wordLeft(mm.newTaskName, mm.newTaskNameCursor)
                   ELSE wordRight(mm.newTaskName, mm.newTaskNameCursor)]
           ELSE IF mm.newTaskFocus = "focusPrompt" THEN
               [m1 EXCEPT !.newTaskCursor =
                   IF back
                   THEN moveWordLeftLines(mm.newTaskPrompt, mm.newTaskCursor.row, mm.newTaskCursor.col)
                   ELSE moveWordRightLines(mm.newTaskPrompt, mm.newTaskCursor.row, mm.newTaskCursor.col)]
           ELSE m1
    ELSE IF Len(k.runes) > 0 THEN
        IF OnName(mm) THEN SetNewName(mm, FldInsert(NewNameFld(mm), k.runes))
        ELSE SetNewTask(mm, InsertText(NewTaskBuf(mm), k.runes))
    ELSE mm

updateNewTask(mm, k) ==
    CASE k.type = "CtrlC" -> Res(mm, cleanupCmd(mm))
      [] k.type = "Esc"   -> Res([mm EXCEPT !.pendingEsc = TRUE], escTick)
      [] k.type = "CtrlA" ->
            Res(IF OnName(mm) THEN [mm EXCEPT !.newTaskNameCursor = 0]
                ELSE [mm EXCEPT !.newTaskCursor =
                        lineLeft(mm.newTaskPrompt, mm.newTaskCursor.row, mm.newTaskCursor.col)],
                NoCmd)
      [] k.type = "CtrlE" ->
            Res(IF OnName(mm) THEN [mm EXCEPT !.newTaskNameCursor = Len(mm.newTaskName)]
                ELSE [mm EXCEPT !.newTaskCursor =
                        lineRight(mm.newTaskPrompt, mm.newTaskCursor.row, mm.newTaskCursor.col)],
                NoCmd)
      [] k.type = "Tab" ->
            Res([mm EXCEPT !.newTaskFocus = IF OnName(mm) THEN "focusPrompt" ELSE "focusTask"],
                NoCmd)
      [] k.type = "Enter" -> NewTaskEnter(mm)
      [] k.type = "Backspace" ->
            Res(IF k.alt THEN
                    IF OnName(mm)
                    THEN SetNewName(mm, deleteWordBackward(mm.newTaskName, mm.newTaskNameCursor))
                    ELSE SetNewTask(mm, BackspaceWord(NewTaskBuf(mm)))
                ELSE IF OnName(mm) THEN SetNewName(mm, FldBackspace(NewNameFld(mm)))
                ELSE SetNewTask(mm, BackspaceChar(NewTaskBuf(mm))),
                NoCmd)
      [] k.type = "CtrlU" ->
            Res(IF OnName(mm)
                THEN SetNewName(mm, deleteLineBackward(mm.newTaskName, mm.newTaskNameCursor))
                ELSE SetNewTask(mm, BackspaceLine(NewTaskBuf(mm))),
                NoCmd)
      [] k.type = "Left" ->
            Res(IF OnName(mm) THEN [mm EXCEPT !.newTaskNameCursor = IF @ > 0 THEN @ - 1 ELSE @]
                ELSE SetNewTask(mm, MoveCharLeft(NewTaskBuf(mm))),
                NoCmd)
      [] k.type = "Right" ->
            Res(IF OnName(mm)
                THEN [mm EXCEPT !.newTaskNameCursor = IF @ < Len(mm.newTaskName) THEN @ + 1 ELSE @]
                ELSE SetNewTask(mm, MoveCharRight(NewTaskBuf(mm))),
                NoCmd)
      [] k.type = "Up" ->
            Res(IF mm.newTaskFocus = "focusPrompt" THEN SetNewTask(mm, MoveRowUp(NewTaskBuf(mm)))
                ELSE mm,
                NoCmd)
      [] k.type = "Down" ->
            Res(IF mm.newTaskFocus = "focusPrompt" THEN SetNewTask(mm, MoveRowDown(NewTaskBuf(mm)))
                ELSE mm,
                NoCmd)
      [] k.type = "Space" ->
            Res(IF OnName(mm) THEN SetNewName(mm, FldInsert(NewNameFld(mm), <<" ">>))
                ELSE SetNewTask(mm, InsertText(NewTaskBuf(mm), <<" ">>)),
                NoCmd)
      [] OTHER -> Res(NewTaskRunes(mm, k), NoCmd)

----------------------------------------------------------------------------
(* model.Update, the completion messages (main.go:648-702)                 *)

\* slice s extended by the slice t
AppendAll(s, t) == s \o t

RECURSIVE Register(_, _, _, _)
\* the loop of main.go:675-691 from index i on
Register(mm, msg, initialPrompt, i) ==
    IF i > Len(msg.modelNames) THEN mm
    ELSE LET l  == msg.modelNames[i]
             m1 == [mm EXCEPT
                      !.modelToPaneID   = MapPut(@, l, msg.paneIDs[i]),
                      !.modelToWorktree = MapPut(@, l, msg.worktrees[i]),
                      !.modelPrompts    = MapPut(@, l, <<initialPrompt>>),
                      !.instanceProvider =
                          IF i <= Len(msg.providers) THEN MapPut(@, l, msg.providers[i]) ELSE @,
                      !.instanceBaseModel =
                          IF i <= Len(msg.baseModels) THEN MapPut(@, l, msg.baseModels[i]) ELSE @]
         IN Register(m1, msg, initialPrompt, i + 1)

\* main.go:666-693
onPanesOpened(mm, msg) ==
    IF ~msg.err /\ msg.count > 0 THEN
        LET initialPrompt == TrimSpace(JoinLines(mm.input))
            m1 == [mm EXCEPT !.screen = "Iteration",
                             !.createdPanes = AppendAll(@, msg.paneIDs),
                             !.createdWorktrees = AppendAll(@, msg.worktrees),
                             !.history = pushHistorySlice(@, initialPrompt)]
        IN Register(m1, msg, initialPrompt, 1)
    ELSE mm

\* main.go:650-661
onNextComplete(mm) ==
    [mm EXCEPT !.iterationInput = << <<>> >>,
               !.iterationCursor = Pos(0, 0),
               !.iterationHistoryIndex = -1,
               !.draftIterationInput = <<>>,
               !.autocompleteActive = FALSE,
               !.autocompleteOptions = <<>>,
               !.screen = "NewTask",
               !.newTaskFocus = "focusTask"]

\* the wrapCompleteMsg handler returning no command
onWrapCompleteStays(mm) == Res(mm, NoCmd)

\* main.go:662-663
onWrapComplete(mm) == Res(mm, quitCmd)

updateMsg(mm, msg) ==
    CASE msg.type = "bailComplete"    -> Res(mm, quitCmd)
      [] msg.type = "nextComplete"    -> Res(onNextComplete(mm), NoCmd)
      [] msg.type = "wrapComplete"    -> onWrapComplete(mm)
      [] msg.type = "cleanupComplete" -> Res(mm, quitCmd)
      [] msg.type = "panesOpened"     -> Res(onPanesOpened(mm, msg), NoCmd)
      [] msg.type = "escTimeout"      ->
            IF mm.pendingEsc
            THEN LET m1 == [mm EXCEPT !.pendingEsc = FALSE] IN Res(m1, cleanupCmd(m1))
            ELSE Res(mm, NoCmd)

(* A Go index or slice expression out of range panics.  The prompt cursor  *)
(* is out of range of the prompt rows after main.go:1447 has replaced the  *)
(* rows without touching the cursor; the Setup handler then panics on the  *)
(* keys that index the row or slice it at the cursor.                      *)
setupPanics(mm, k) ==
    LET row      == mm.cursor.row
        col      == mm.cursor.col
        rowBad   == row >= Len(mm.input)
        colBad   == ~rowBad /\ col > Len(mm.input[row + 1])
        bad      == rowBad \/ colBad
        onPrompt == mm.focus = "focusPrompt"
        inText   == mm.focus \notin {"focusBranch", "focusTask"}
    IN IF IsWordMove(mm, k) THEN onPrompt /\ colBad /\ RunesOf(k)[1] = "b"
       ELSE CASE k.type \in {"Enter", "CtrlU"} -> onPrompt /\ bad
              [] k.type = "Space"     -> onPrompt /\ bad
              [] k.type = "Backspace" -> onPrompt /\ bad
              [] k.type = "Left"      -> inText /\ col = 0 /\ row > 0 /\ row - 1 >= Len(mm.input)
              [] k.type = "Right"     -> inText /\ rowBad
              [] k.type = "Up"        -> onPrompt /\ Len(mm.history) = 0
                                           /\ row > 0 /\ row - 1 >= Len(mm.input)
              [] k.type = "Runes"     -> onPrompt /\ Len(k.runes) > 0 /\ bad
              [] OTHER                -> FALSE

\* the key handler panics on this key
updatePanics(mm, k) == mm.screen \notin {"Iteration", "NewTask"} /\ setupPanics(mm, k)

\* the dispatch of tea.KeyMsg (main.go:703-710)
updateKey(mm, k, ord) ==
    IF mm.screen = "Iteration" THEN updateIteration(mm, k, ord)
    ELSE IF mm.screen = "NewTask" THEN updateNewTask(mm, k)
    ELSE updateSetup(mm, k)

----------------------------------------------------------------------------
(* The commands (main.go:1621-1982).  A run of a command is the sequence   *)
(* of external operations it performs, each with its outcome, and the      *)
(* message it returns.  tmux.IsInsideTmux() is true throughout: main()     *)
(* exits at startup otherwise (main.go:2908-2911).                         *)

Op(name, ok, pane, wt) == [op |-> name, ok |-> ok, pane |-> pane, wt |-> wt]

Run(ops, msg) == [ops |-> ops, msg |-> msg]

\* KillOps killing the pane of the chosen instance alone
KillOpsChosen(c, mm) ==
    IF c.label \in DOMAIN mm.modelToPaneID
    THEN << Op("kill-pane", TRUE, mm.modelToPaneID[c.label], <<>>) >>
    ELSE [i \in 1..c.nPanes |-> Op("kill-pane", TRUE, mm.createdPanes[i], <<>>)]

\* the kill-pane loop over the captured createdPanes
KillOps(c, mm) == [i \in 1..c.nPanes |-> Op("kill-pane", TRUE, mm.createdPanes[i], <<>>)]

RECURSIVE RemoveOps(_, _, _)
\* the worktree loop over the captured createdWorktrees
RemoveOps(c, mm, i) ==
    IF i > c.nWorktrees THEN <<>>
    ELSE << Op("worktree-remove", TRUE, 0, mm.createdWorktrees[i]),
            Op("branch-delete", TRUE, 0, mm.createdWorktrees[i]) >>
         \o RemoveOps(c, mm, i + 1)

\* cleanupRun killing the panes and leaving the worktrees and branches
cleanupRunPanesOnly(c, mm) == Run(KillOps(c, mm), Msg("cleanupComplete"))

\* main.go:1950-1982
cleanupRun(c, mm) == Run(KillOps(c, mm) \o RemoveOps(c, mm, 1), Msg("cleanupComplete"))

\* bailRun removing the worktrees and leaving their temporary branches
bailRunKeepsBranches(c, mm) ==
    Run(KillOps(c, mm)
          \o SelectSeq(RemoveOps(c, mm, 1), LAMBDA o : o.op = "worktree-remove"),
        Msg("bailComplete"))

\* main.go:1713-1743
bailRun(c, mm) == Run(KillOps(c, mm) \o RemoveOps(c, mm, 1), Msg("bailComplete"))

\* ChoiceKey counting under the instance label
ChoiceKeyLabel(c, mm) == <<providers[c.providerIndex + 1], c.label>>

\* the provider / base model whose usage counter is incremented (main.go:1758-1763)
ChoiceKey(c, mm) ==
    LET prov == IF c.label \in DOMAIN mm.instanceProvider
                THEN mm.instanceProvider[c.label] ELSE ""
        base == IF c.label \in DOMAIN mm.instanceBaseModel
                THEN mm.instanceBaseModel[c.label] ELSE <<>>
    IN IF prov = "" \/ base = <<>>
       THEN <<providers[c.providerIndex + 1], c.label>>
       ELSE <<prov, base>>

\* mergeRun returning early on a failed push, as it does on a failed merge
mergeRunPushAborts(c, mm, ok, done) ==
    IF c.label \notin DOMAIN mm.modelToWorktree THEN Run(<<>>, Msg("bailComplete"))
    ELSE
        LET worktree      == mm.modelToWorktree[c.label]
            featureBranch == TrimSpace(c.branch)
            add      == Op("add", ok.add, 0, worktree)
            commit   == Op("commit", ok.commit, 0, worktree)
            checkout == Op("checkout", ok.checkout, 0, featureBranch)
            merge    == Op("merge", ok.merge, 0, worktree)
            push     == Op("push", ok.push, 0, featureBranch)
        IN IF ~ok.add THEN Run(<<add>>, Msg("bailComplete"))
           ELSE IF ~ok.checkout THEN Run(<<add, commit, checkout>>, Msg("bailComplete"))
           ELSE IF ~ok.merge THEN Run(<<add, commit, checkout, merge>>, Msg("bailComplete"))
           ELSE IF ~ok.push THEN Run(<<add, commit, checkout, merge, push>>, Msg("bailComplete"))
           ELSE Run(<<add, commit, checkout, merge, push>>
                      \o KillOps(c, mm) \o RemoveOps(c, mm, 1),
                    Msg(done))

\* mergeRun cleaning up although the merge failed
mergeRunCleansUnmerged(c, mm, ok, done) ==
    IF c.label \notin DOMAIN mm.modelToWorktree THEN Run(<<>>, Msg("bailComplete"))
    ELSE
        LET worktree      == mm.modelToWorktree[c.label]
            featureBranch == TrimSpace(c.branch)
            add      == Op("add", ok.add, 0, worktree)
            commit   == Op("commit", ok.commit, 0, worktree)
            checkout == Op("checkout", ok.checkout, 0, featureBranch)
            merge    == Op("merge", ok.merge, 0, worktree)
            push     == Op("push", ok.push, 0, featureBranch)
        IN IF ~ok.add THEN Run(<<add>>, Msg("bailComplete"))
           ELSE IF ~ok.checkout THEN Run(<<add, commit, checkout>>, Msg("bailComplete"))
           ELSE IF ~ok.merge
                THEN Run(<<add, commit, checkout, merge>>
                           \o KillOps(c, mm) \o RemoveOps(c, mm, 1),
                         Msg("bailComplete"))
           ELSE Run(<<add, commit, checkout, merge, push>>
                      \o KillOps(c, mm) \o RemoveOps(c, mm, 1),
                    Msg(done))

(* The body nextCmd and wrapCmd share; ok gives the outcome of each git    *)
(* step (add, commit, checkout, merge, push), done the message of a        *)
(* complete run.                                                           *)
mergeRun(c, mm, ok, done) ==
    IF c.label \notin DOMAIN mm.modelToWorktree THEN Run(<<>>, Msg("bailComplete"))
    ELSE
        LET worktree      == mm.modelToWorktree[c.label]
            featureBranch == TrimSpace(c.branch)
            add      == Op("add", ok.add, 0, worktree)
            commit   == Op("commit", ok.commit, 0, worktree)
            checkout == Op("checkout", ok.checkout, 0, featureBranch)
            merge    == Op("merge", ok.merge, 0, worktree)
            push     == Op("push", ok.push, 0, featureBranch)
        IN IF ~ok.add THEN Run(<<add>>, Msg("bailComplete"))
           ELSE IF ~ok.checkout THEN Run(<<add, commit, checkout>>, Msg("bailComplete"))
           ELSE IF ~ok.merge THEN Run(<<add, commit, checkout, merge>>, Msg("bailComplete"))
           ELSE Run(<<add, commit, checkout, merge, push>>
                      \o KillOps(c, mm) \o RemoveOps(c, mm, 1),
                    Msg(done))

\* nextRun going on to the cleanup after a failed checkout
nextRunNoAbort(c, mm, ok) ==
    LET r == mergeRun(c, mm, ok, "nextComplete") IN
    IF c.label \in DOMAIN mm.modelToWorktree /\ ok.add /\ ~ok.checkout
    THEN Run(r.ops \o KillOps(c, mm) \o RemoveOps(c, mm, 1), Msg("nextComplete"))
    ELSE r

\* main.go:1745-1831
nextRun(c, mm, ok) == mergeRun(c, mm, ok, "nextComplete")

\* main.go:1833-1919
wrapRun(c, mm, ok) == mergeRun(c, mm, ok, "wrapComplete")

\* main.go:1921-1948; the command returns no message
sendRun(c) ==
    Run(<< Op("send-interrupt", TRUE, c.pane, <<>>), Op("send-keys", TRUE, c.pane, c.prompt) >>,
        Msg("none"))

\* openPanesRun without the test of the branch name (main.go:1637-1640)
openPanesRunAnyBranch(c, origOk, okAt, firstPane) ==
    LET branchName == TrimSpace(c.branch)
        labels     == LaunchLabels(c.models)
        idx        == SelectSeq([i \in 1..Len(c.models) |-> i], LAMBDA i : i \in okAt)
        provider   == providers[c.providerIndex + 1]
    IN IF ~origOk THEN
           Run(<< Op("checkout-b", TRUE, 0, branchName) >>, [Msg("panesOpened") EXCEPT !.err = TRUE])
       ELSE
           Run(<< Op("checkout-b", TRUE, 0, branchName) >>
                 \o [j \in 1..Len(idx) |->
                        Op("split-window", TRUE, firstPane + j,
                           identifierFor(c.branch, c.task, labels[idx[j]]))],
               [Msg("panesOpened") EXCEPT
                  !.count      = Len(idx),
                  !.err        = Len(idx) < Len(c.models),
                  !.paneIDs    = [j \in 1..Len(idx) |-> firstPane + j],
                  !.worktrees  = [j \in 1..Len(idx) |->
                                     identifierFor(c.branch, c.task, labels[idx[j]])],
                  !.modelNames = [j \in 1..Len(idx) |-> labels[idx[j]]],
                  !.providers  = [j \in 1..Len(idx) |-> provider],
                  !.baseModels = [j \in 1..Len(idx) |-> c.models[idx[j]]]])

(* main.go:1621-1711.  origOk is the outcome of the pane-id query of       *)
(* main.go:1650, okAt the set of positions whose split-window succeeds.    *)
openPanesRun(c, origOk, okAt, firstPane) ==
    LET branchName == TrimSpace(c.branch)
        labels     == LaunchLabels(c.models)
        idx        == SelectSeq([i \in 1..Len(c.models) |-> i], LAMBDA i : i \in okAt)
        provider   == providers[c.providerIndex + 1]
    IN IF branchName = <<>> THEN Run(<<>>, [Msg("panesOpened") EXCEPT !.err = TRUE])
       ELSE IF ~origOk THEN
           Run(<< Op("checkout-b", TRUE, 0, branchName) >>, [Msg("panesOpened") EXCEPT !.err = TRUE])
       ELSE
           Run(<< Op("checkout-b", TRUE, 0, branchName) >>
                 \o [j \in 1..Len(idx) |->
                        Op("split-window", TRUE, firstPane + j,
                           identifierFor(c.branch, c.task, labels[idx[j]]))],
               [Msg("panesOpened") EXCEPT
                  !.count      = Len(idx),
                  !.err        = Len(idx) < Len(c.models),
                  !.paneIDs    = [j \in 1..Len(idx) |-> firstPane + j],
                  !.worktrees  = [j \in 1..Len(idx) |->
                                     identifierFor(c.branch, c.task, labels[idx[j]])],
                  !.modelNames = [j \in 1..Len(idx) |-> labels[idx[j]]],
                  !.providers  = [j \in 1..Len(idx) |-> provider],
                  !.baseModels = [j \in 1..Len(idx) |-> c.models[idx[j]]]])

(* Effect of a run on tmux and git.                                        *)
OpsOf(ops, name) == {ops[i] : i \in {j \in 1..Len(ops) : ops[j].op = name /\ ops[j].ok}}

PanesAfter(ps, ops) ==
    (ps \cup {o.pane : o \in OpsOf(ops, "split-window")})
        \ {o.pane : o \in OpsOf(ops, "kill-pane")}

\* the shell of a new pane runs `git worktree add -b id ../id branch`
WtsAfter(ws, ops) ==
    (ws \cup {o.wt : o \in OpsOf(ops, "split-window")})
        \ {o.wt : o \in OpsOf(ops, "worktree-remove")}

BranchesAfter(bs, ops) ==
    (bs \cup {o.wt : o \in OpsOf(ops, "checkout-b")}
        \cup {o.wt : o \in OpsOf(ops, "split-window")})
        \ {o.wt : o \in OpsOf(ops, "branch-delete")}

----------------------------------------------------------------------------
(* Initial state (initialModel, main.go:398-486)                           *)

MaxLine == 9   \* bytes of one row (the longest command line, "/next a-2")
MaxLog  == 2   \* entries of one prompt log

NoSelection == [p \in Range(providers) |-> [n \in Range(models[p]) |-> 0]]

\* a Selection Table with the given counts for one provider
Table(p, t) == [NoSelection EXCEPT ![p] = [n \in Range(models[p]) |-> IF n \in DOMAIN t THEN t[n] ELSE 0]]

A == <<"a">>
B == <<"b">>

(* Provider and Selection Table the saved defaults produce                 *)
(* (loadDefaults, main.go:410-427): nothing saved, one model twice, two    *)
(* models once, and the second provider with its one model.                *)
InitDefaults ==
    { [pi |-> 0, sel |-> NoSelection],
      [pi |-> 0, sel |-> Table("github-copilot", [n \in {A} |-> 2])],
      [pi |-> 0, sel |-> Table("github-copilot", [n \in {A, B} |-> 1])],
      [pi |-> 1, sel |-> Table("OpenAI", [n \in {A} |-> 1])] }

InitModel(pi, sel, br, hist) ==
    [input |-> << <<>> >>, cursor |-> Pos(0, 0),
     branch |-> br, branchCursor |-> Len(br),
     task |-> <<>>, taskCursor |-> 0,
     providerIndex |-> pi, providerOpen |-> FALSE, providerHover |-> 0,
     selected |-> sel, modelsOpen |-> FALSE, modelsHover |-> 0,
     focus |-> "focusPrompt", screen |-> "Setup",
     iterationInput |-> << <<>> >>, iterationCursor |-> Pos(0, 0),
     autocompleteOptions |-> <<>>, autocompleteIndex |-> 0, autocompleteActive |-> FALSE,
     createdPanes |-> <<>>, createdWorktrees |-> <<>>,
     modelToPaneID |-> EmptyMap, modelToWorktree |-> EmptyMap, modelPrompts |-> EmptyMap,
     instanceProvider |-> EmptyMap, instanceBaseModel |-> EmptyMap,
     newTaskName |-> <<>>, newTaskNameCursor |-> 0,
     newTaskPrompt |-> << <<>> >>, newTaskCursor |-> Pos(0, 0), newTaskFocus |-> "focusTask",
     pendingEsc |-> FALSE,
     history |-> hist, historyIndex |-> -1, iterationHistoryIndex |-> -1,
     draftInput |-> <<>>, draftIterationInput |-> <<>>]

NoTrace == [cmd |-> NoCmd, ops |-> <<>>, msg |-> "none"]

\* the branch checked out at startup, kept unless it is a standard one
InitBranches == {<<>>, <<"f">>}

\* the history file of the repository
InitHistories == {<<>>}

\* the program starts with the session mm: nothing launched, nothing in flight
Start(mm) ==
    /\ m = mm
    /\ cmds = <<>>
    /\ msgs = <<>>
    /\ panes = {}
    /\ paneSeq = 0
    /\ wts = {}
    /\ branches = {mm.branch} \ {<<>>}
    /\ choices = EmptyMap
    /\ trace = NoTrace
    /\ launches = 0
    /\ quit = FALSE
    /\ panicked = FALSE

Init ==
    \E d \in InitDefaults, br \in InitBranches, hist \in InitHistories :
        Start(InitModel(d.pi, d.sel, br, hist))

----------------------------------------------------------------------------
(* Bounds on the inputs                                                    *)

Buffers(mm) == {mm.input, mm.iterationInput, mm.newTaskPrompt}

WithinBounds(mm) ==
    /\ \A rows \in Buffers(mm) :
          Len(rows) <= MaxRows /\ \A i \in 1..Len(rows) : Len(rows[i]) <= MaxLine
    /\ \A p \in Range(providers) : \A n \in Range(models[p]) : mm.selected[p][n] <= MaxCount
    /\ Len(mm.history) <= MaxHist \/ Len(mm.history) <= Len(m.history)
    /\ \A l \in DOMAIN mm.modelPrompts : Len(mm.modelPrompts[l]) <= MaxLog

RECURSIVE SeqOfSet(_)
SeqOfSet(S) == IF S = {} THEN <<>> ELSE LET x == CHOOSE y \in S : TRUE IN <<x>> \o SeqOfSet(S \ {x})

Reverse(s) == [i \in 1..Len(s) |-> s[Len(s) + 1 - i]]

\* every label a launch can produce
AllLabels == {InstanceLabel(n, k) : n \in ModelNames, k \in 1..MaxCount}

\* the orders in which the Go runtime is taken to visit the keys of a map
MapOrders == {SeqOfSet(AllLabels), Reverse(SeqOfSet(AllLabels))}

\* an instance label that is never registered
Unknown == <<"z">>

CommandLines ==
    { <<"/","b","a","i","l">>, <<"x">> }
    \cup {NextSp \o l : l \in {A, InstanceLabel(A, 2), Unknown}}
    \cup {WrapSp \o l : l \in {A, Unknown}}
    \cup {<<"@">> \o l \o <<" ", "x">> : l \in {A, Unknown}}

AllEmpty(rows) == \A i \in 1..Len(rows) : rows[i] = <<>>

\* text pasted into the field that has the focus, while that field is empty
Pastes(mm) ==
    IF mm.screen = "Iteration" THEN
        IF AllEmpty(mm.iterationInput) THEN CommandLines ELSE {}
    ELSE IF mm.screen = "NewTask" THEN
        IF mm.newTaskFocus = "focusTask" THEN (IF mm.newTaskName = <<>> THEN {<<"u">>} ELSE {})
        ELSE IF AllEmpty(mm.newTaskPrompt) THEN {<<"q">>} ELSE {}
    ELSE CASE mm.focus = "focusBranch" -> IF mm.branch = <<>> THEN {<<"f">>} ELSE {}
           [] mm.focus = "focusTask"   -> IF mm.task = <<>> THEN {<<"t">>} ELSE {}
           [] OTHER                    -> IF AllEmpty(mm.input) THEN {<<"p">>} ELSE {}

(* The keys of the orchestration specification.  Enter on an empty         *)
(* iteration buffer only adds an empty row and is not offered.             *)
SessionKeys(mm) ==
    {Key(t) : t \in {"CtrlC", "Esc"}}
    \cup (IF mm.screen = "Iteration" /\ AllEmpty(mm.iterationInput) THEN {} ELSE {Key("Enter")})
    \cup {Runes(r) : r \in Pastes(mm)}

----------------------------------------------------------------------------
(* Actions                                                                 *)

RemoveAt(s, i) == SubSeq(s, 1, i - 1) \o SubSeq(s, i + 1, Len(s))

\* the runtime takes the command a handler returned
Dispatch(c, cs, ms) ==
    /\ cmds' = IF c.kind \in {"none", "escTick", "quit"} THEN cs ELSE Append(cs, c)
    /\ msgs' = IF c.kind = "escTick" THEN Append(ms, Msg("escTimeout")) ELSE ms
    /\ quit' = (c.kind = "quit")

World == <<panes, paneSeq, wts, branches, choices>>

\* the program runs until tea.Quit or a panic
Running == ~quit /\ ~panicked

\* a key press reaches Update
KeyMsg(k, ord) ==
    /\ Running
    /\ IF updatePanics(m, k)
       THEN panicked' = TRUE /\ UNCHANGED <<m, cmds, msgs, quit, launches>>
       ELSE LET r == updateKey(m, k, ord) IN
            /\ WithinBounds(r.m)
            /\ r.cmd.kind # "none" => Len(cmds) + Len(msgs) < MaxInFlight
            /\ r.cmd.kind = "openPanes" => launches < MaxLaunch
            /\ m' = r.m
            /\ Dispatch(r.cmd, cmds, msgs)
            /\ launches' = IF r.cmd.kind = "openPanes" THEN launches + 1 ELSE launches
            /\ UNCHANGED panicked
    /\ UNCHANGED <<World, trace>>

\* a completion message reaches Update
Deliver(type) ==
    /\ Running
    /\ \E i \in 1..Len(msgs) :
          /\ msgs[i].type = type
          /\ LET r == updateMsg(m, msgs[i]) IN
                /\ WithinBounds(r.m)
                /\ m' = r.m
                /\ Dispatch(r.cmd, cmds, RemoveAt(msgs, i))
                /\ trace' = IF trace.msg = type THEN NoTrace ELSE trace
    /\ UNCHANGED <<World, launches, panicked>>

\* a command has run: its operations are applied and its message is sent
Finish(i, run) ==
    /\ panes' = PanesAfter(panes, run.ops)
    /\ paneSeq' = paneSeq + Cardinality(OpsOf(run.ops, "split-window"))
    /\ wts' = WtsAfter(wts, run.ops)
    /\ branches' = BranchesAfter(branches, run.ops)
    /\ trace' = [cmd |-> cmds[i], ops |-> run.ops, msg |-> run.msg.type]
    /\ cmds' = RemoveAt(cmds, i)
    /\ msgs' = IF run.msg.type = "none" THEN msgs ELSE Append(msgs, run.msg)
    /\ UNCHANGED <<m, launches, quit, panicked>>

RunOpenPanes ==
    /\ Running
    /\ \E i \in 1..Len(cmds) :
          /\ cmds[i].kind = "openPanes"
          /\ \E origOk \in BOOLEAN, okAt \in SUBSET (1..Len(cmds[i].models)) :
                LET run == openPanesRun(cmds[i], origOk, okAt, paneSeq) IN
                Finish(i, run)
    /\ UNCHANGED choices

RunSimple(kind) ==
    /\ Running
    /\ \E i \in 1..Len(cmds) :
          /\ cmds[i].kind = kind
          /\ Finish(i, CASE kind = "bail"    -> bailRun(cmds[i], m)
                         [] kind = "cleanup" -> cleanupRun(cmds[i], m)
                         [] kind = "send"    -> sendRun(cmds[i]))
    /\ UNCHANGED choices

Outcomes == [add : BOOLEAN, commit : BOOLEAN, checkout : BOOLEAN, merge : BOOLEAN, push : BOOLEAN]

\* a git step succeeds only on a worktree / branch that exists
Possible(c, mm, ok) ==
    c.label \in DOMAIN mm.modelToWorktree =>
        /\ (ok.add \/ ok.commit) => mm.modelToWorktree[c.label] \in wts
        /\ ok.checkout => TrimSpace(c.branch) \in branches
        /\ ok.merge => mm.modelToWorktree[c.label] \in branches

\* incrementChoice (main.go:50-83)
incrementChoice(ch, key) == MapPut(ch, key, IF key \in DOMAIN ch THEN ch[key] + 1 ELSE 1)

RunMerge(kind) ==
    /\ Running
    /\ \E i \in 1..Len(cmds) :
          /\ cmds[i].kind = kind
          /\ \E ok \in Outcomes :
                /\ Possible(cmds[i], m, ok)
                /\ Finish(i, IF kind = "next" THEN nextRun(cmds[i], m, ok)
                             ELSE wrapRun(cmds[i], m, ok))
          /\ choices' = IF cmds[i].label \in DOMAIN m.modelToWorktree
                        THEN incrementChoice(choices, ChoiceKey(cmds[i], m))
                        ELSE choices

\* nothing is in flight
Idle == cmds = <<>> /\ msgs = <<>>

(* Spec: a user who presses a key only when nothing is in flight.          *)
Next ==
    \/ Idle /\ \E k \in SessionKeys(m), ord \in MapOrders : KeyMsg(k, ord)
    \/ Deliver("panesOpened")
    \/ Deliver("bailComplete")
    \/ Deliver("nextComplete")
    \/ Deliver("wrapComplete")
    \/ Deliver("cleanupComplete")
    \/ Deliver("escTimeout")
    \/ RunOpenPanes
    \/ RunSimple("bail")
    \/ RunSimple("cleanup")
    \/ RunSimple("send")
    \/ RunMerge("next")
    \/ RunMerge("wrap")

Spec == Init /\ [][Next]_vars

(* SpecRace: keys arrive at any time, also while commands and messages are *)
(* in flight; one saved default and fewer command lines.                   *)
InitRace ==
    /\ Init
    /\ m.providerIndex = 1
    /\ m.branch # <<>>

RaceLines ==
    { <<"/","b","a","i","l">>, NextSp \o A, <<"@">> \o A \o <<" ", "x">> }

RaceKeys(mm) ==
    {Key(t) : t \in {"CtrlC", "Esc", "Enter"}}
    \cup {Runes(r) : r \in IF mm.screen = "Iteration" THEN Pastes(mm) \cap RaceLines
                            ELSE Pastes(mm)}

NextRace ==
    \/ \E k \in RaceKeys(m), ord \in MapOrders : KeyMsg(k, ord)
    \/ Deliver("panesOpened")
    \/ Deliver("bailComplete")
    \/ Deliver("nextComplete")
    \/ Deliver("cleanupComplete")
    \/ Deliver("escTimeout")
    \/ RunOpenPanes
    \/ RunSimple("bail")
    \/ RunSimple("cleanup")
    \/ RunSimple("send")
    \/ RunMerge("next")

SpecRace == InitRace /\ [][NextRace]_vars

\* cleanup commands, and nothing else, are in flight
CleaningUp ==
    /\ cmds # <<>>
    /\ \A i \in 1..Len(cmds) : cmds[i].kind = "cleanup"
    /\ msgs = <<>>

(* SpecCancel: the user of Spec, who also presses Ctrl-C again while a      *)
(* Cleanup is running.                                                     *)
NextCancel ==
    \/ Idle /\ \E k \in SessionKeys(m), ord \in MapOrders : KeyMsg(k, ord)
    \/ CleaningUp /\ \E ord \in MapOrders : KeyMsg(Key("CtrlC"), ord)
    \/ Deliver("panesOpened")
    \/ Deliver("bailComplete")
    \/ Deliver("nextComplete")
    \/ Deliver("wrapComplete")
    \/ Deliver("cleanupComplete")
    \/ Deliver("escTimeout")
    \/ RunOpenPanes
    \/ RunSimple("bail")
    \/ RunSimple("cleanup")
    \/ RunSimple("send")
    \/ RunMerge("next")
    \/ RunMerge("wrap")

SpecCancel == Init /\ [][NextCancel]_vars

(* The keys that move over the Setup form and edit the Selection Table.    *)
SelectKeys(mm) ==
    {Key(t) : t \in {"Tab", "Up", "Down"}}
    \cup (IF mm.focus = "focusPrompt" THEN {} ELSE {Key("Enter")})
    \cup (IF mm.focus \in {"focusProvider", "focusModels"}
          THEN {Key("Space"), Key("Backspace")} ELSE {})

(* SpecSelect: a user who chooses the provider and the models on the Setup *)
(* screen and launches nothing.                                            *)
NextSelect == \E k \in SelectKeys(m), ord \in MapOrders : KeyMsg(k, ord)

SpecSelect == Init /\ [][NextSelect]_vars

MaxPush == 25   \* distinct entries given to the History Store

\* the k-th distinct entry
Entry(k) == Itoa(k)

\* the number of the most recent entry of h, 0 for the empty store
HistNum(h) == IF h = <<>> THEN 0 ELSE CHOOSE k \in 1..MaxPush : Entry(k) = h[1]

(* The entries given to the store h: the next new entry, bare and between  *)
(* white space, the empty and the blank entry, and the most recent entry   *)
(* once more, bare and between white space.                                *)
PushInputs(h) ==
    LET n == HistNum(h) IN
    (IF n < MaxPush THEN {Entry(n + 1), <<" ">> \o Entry(n + 1) \o <<"\n">>} ELSE {})
    \cup {<<>>, <<" ", "\t">>}
    \cup (IF h = <<>> THEN {} ELSE {h[1], <<"\t">> \o h[1] \o <<" ">>})

(* m.history = pushHistorySlice(m.history, e), the statement of            *)
(* main.go:673 and main.go:1200.  trace keeps the entry and whether the    *)
(* store was left as it was.                                               *)
PushHistory(e) ==
    /\ Running
    /\ m' = [m EXCEPT !.history = pushHistorySlice(@, e)]
    /\ trace' = [cmd |-> [NoCmd EXCEPT !.kind = "push", !.prompt = e],
                 ops |-> <<>>,
                 msg |-> IF m'.history = m.history THEN "kept" ELSE "pushed"]
    /\ UNCHANGED <<cmds, msgs, World, launches, quit, panicked>>

(* SpecHistory: the History Store under a sequence of pushes.              *)
NextHistory == \E e \in PushInputs(m.history) : PushHistory(e)

SpecHistory == Init /\ [][NextHistory]_vars

(* History files the program has saved in earlier sessions: none, one     *)
(* entry, and two entries the more recent of which has two rows.           *)
NavHistories == { <<>>, << <<"x">> >>, << <<"y", "\n", "z">>, <<"x">> >> }

InitNav ==
    \E hist \in NavHistories :
        Start(InitModel(1, Table("OpenAI", [n \in {A} |-> 1]), <<"f">>, hist))

NavLines == { <<"x">>, <<"@">> \o A \o <<" ", "x">> }

(* The keys of history navigation: Up and Down, text pasted into the empty *)
(* buffer, and Enter.                                                      *)
NavKeys(mm) ==
    {Key(t) : t \in {"Up", "Down"}}
    \cup (IF mm.screen = "Iteration" /\ AllEmpty(mm.iterationInput) THEN {} ELSE {Key("Enter")})
    \cup {Runes(r) : r \in IF mm.screen = "Iteration" THEN Pastes(mm) \cap NavLines
                            ELSE Pastes(mm)}

(* SpecNav: a user who walks through the history on the Setup prompt,      *)
(* launches, and walks through it on the Iteration prompt between          *)
(* follow-ups.                                                             *)
NextNav ==
    \/ Idle /\ \E k \in NavKeys(m), ord \in MapOrders : KeyMsg(k, ord)
    \/ Deliver("panesOpened")
    \/ RunOpenPanes
    \/ RunSimple("send")

SpecNav == InitNav /\ [][NextNav]_vars

----------------------------------------------------------------------------
(* Properties                                                              *)

\* the Instance Registry: the labels with a pane handle
Registered == DOMAIN m.modelToPaneID

\* this step delivers the message at position i of the message queue
Delivers(i) == Deliver(msgs[i].type) /\ msgs' = RemoveAt(msgs, i)

\* this step is a key press
KeyStep(k) == \E ord \in MapOrders : KeyMsg(k, ord)

\* Enter submits this line of the Iteration buffer
Submits(line) ==
    /\ m.screen = "Iteration"
    /\ ~(m.autocompleteActive /\ Len(m.autocompleteOptions) > 0)
    /\ TrimSpace(JoinLines(m.iterationInput)) = line
    /\ KeyStep(Key("Enter"))

\* the run of the last command, by step
StepOk(name)     == \E i \in 1..Len(trace.ops) : trace.ops[i].op = name /\ trace.ops[i].ok
StepFailed(name) == \E i \in 1..Len(trace.ops) : trace.ops[i].op = name /\ ~trace.ops[i].ok
StepTried(name)  == \E i \in 1..Len(trace.ops) : trace.ops[i].op = name

\* the last command was a Next or a Wrap of a registered label
MergeRan == trace.cmd.kind \in {"next", "wrap"} /\ trace.cmd.label \in Registered

\* the pane, workspace and temporary branch of every registered instance are gone
AllRemoved ==
    \A l \in Registered :
        /\ m.modelToPaneID[l] \notin panes
        /\ m.modelToWorktree[l] \notin wts
        /\ m.modelToWorktree[l] \notin branches

\* the pane of some registered instance is still open
SomePaneLeft == \E l \in Registered : m.modelToPaneID[l] \in panes

(* C1: submitting `/next <label>` with a registered label starts Next, and *)
(* when the completion of Next is delivered the session quits; it does not *)
(* go to the NewTask screen.                                               *)
C1_NextThenQuit ==
    [][/\ \A l \in Registered :
             Submits(NextSp \o l) => cmds' = Append(cmds, nextCmd(m', l))
       /\ Deliver("nextComplete") => (quit' /\ m'.screen # "NewTask")]_vars

(* C2: submitting `/wrap <label>` runs the merge and cleanup of Next, and  *)
(* when its completion is delivered the session does not quit: it goes to  *)
(* the NewTask screen with an empty iteration buffer.                      *)
C2_WrapThenNewTask ==
    [][/\ \A l \in Registered :
             Submits(WrapSp \o l) => cmds' = Append(cmds, wrapCmd(m', l))
       /\ Deliver("wrapComplete") =>
             (~quit' /\ m'.screen = "NewTask" /\ m'.iterationInput = << <<>> >>)]_vars

(* C3: the completion of a Launch that provisioned at least one instance   *)
(* takes the session to the Iteration screen, also when other labels       *)
(* failed (a count of one or more together with an error).                 *)
C3_PartialLaunchIterates ==
    [][\A i \in 1..Len(msgs) :
          (msgs[i].type = "panesOpened" /\ msgs[i].count >= 1 /\ Delivers(i))
              => m'.screen = "Iteration"]_vars

(* C4: after the completion of a Launch with at least one success, every   *)
(* label that succeeded is registered with the pane and workspace the      *)
(* launch reported for it, its prompt log is exactly the submitted prompt, *)
(* and the History Store was given that prompt once.                       *)
C4_LaunchRegistersSucceeded ==
    [][\A i \in 1..Len(msgs) :
          (msgs[i].type = "panesOpened" /\ msgs[i].count >= 1 /\ Delivers(i))
              => LET prompt == TrimSpace(JoinLines(m.input)) IN
                 /\ \A j \in 1..Len(msgs[i].modelNames) :
                       LET l == msgs[i].modelNames[j] IN
                       /\ l \in DOMAIN m'.modelToPaneID
                       /\ m'.modelToPaneID[l] = msgs[i].paneIDs[j]
                       /\ l \in DOMAIN m'.modelToWorktree
                       /\ m'.modelToWorktree[l] = msgs[i].worktrees[j]
                       /\ l \in DOMAIN m'.modelPrompts
                       /\ m'.modelPrompts[l] = <<prompt>>
                 /\ m'.history = pushHistorySlice(m.history, prompt)]_vars

\* the orchestration actions in flight: commands not yet run and
\* completions not yet delivered
InFlight ==
    Len(cmds) + Cardinality({i \in 1..Len(msgs) : msgs[i].type # "escTimeout"})

(* C5: at most one orchestration action is in flight, and while one is in  *)
(* flight the screen is Progress.                                          *)
C5_OneActionInFlight ==
    /\ InFlight <= 1
    /\ InFlight = 1 => m.screen = "Progress"

(* C6: on the Progress screen a key press changes nothing of the session   *)
(* and starts no action; Ctrl-C and Esc start no Cleanup.                  *)
C6_ProgressIgnoresKeys ==
    [][\A k \in RaceKeys(m) :
          (m.screen = "Progress" /\ KeyStep(k))
              => (m' = m /\ cmds' = cmds /\ msgs' = msgs)]_vars

(* C7: with two or more registered instances, a complete Next merges the   *)
(* workspace branch of the chosen label and no other, and afterwards the   *)
(* pane of every registered instance is killed and its workspace and       *)
(* temporary branch are removed.                                           *)
C7_NextMergesOneRemovesAll ==
    (trace.cmd.kind = "next" /\ trace.msg = "nextComplete" /\ Cardinality(Registered) >= 2)
        => /\ {o.wt : o \in OpsOf(trace.ops, "merge")} = {m.modelToWorktree[trace.cmd.label]}
           /\ AllRemoved

C7_Witness ==
    /\ trace.cmd.kind = "next"
    /\ trace.msg = "nextComplete"
    /\ Cardinality(Registered) >= 2
    /\ Cardinality({o.pane : o \in OpsOf(trace.ops, "kill-pane")}) >= 2
    /\ AllRemoved

MergeRuns == Len(cmds') < Len(cmds) /\ trace'.cmd.kind \in {"next", "wrap"}

(* C9: in Next and Wrap, when the checkout of the feature branch fails the *)
(* run ends there: no merge and no push is tried, and no pane, workspace   *)
(* or temporary branch is removed.                                         *)
C9_CheckoutFailureAborts ==
    [][(MergeRuns
          /\ \E i \in 1..Len(trace'.ops) : trace'.ops[i].op = "checkout" /\ ~trace'.ops[i].ok)
         => /\ \A i \in 1..Len(trace'.ops) :
                  trace'.ops[i].op \notin {"merge", "push", "kill-pane",
                                           "worktree-remove", "branch-delete"}
            /\ UNCHANGED <<panes, wts, branches>>]_vars

C9_Witness ==
    /\ MergeRan
    /\ StepFailed("checkout")
    /\ SomePaneLeft
    /\ \E l \in Registered : m.modelToWorktree[l] \in wts

\* a follow-up line addressed to label l
FollowUpLine(l) == <<"@">> \o l \o <<" ", "x">>

(* C10: submitting `@<label> <text>` with a label that is not registered   *)
(* starts no action and leaves every prompt log and the History Store as   *)
(* they were.                                                              *)
C10_UnknownLabelFollowUp ==
    [][\A l \in (AllLabels \cup {Unknown}) \ Registered :
          Submits(FollowUpLine(l))
              => /\ cmds' = cmds
                 /\ msgs' = msgs
                 /\ m'.modelPrompts = m.modelPrompts
                 /\ m'.history = m.history]_vars

C10_Witness ==
    /\ m.screen = "Iteration"
    /\ Unknown \notin Registered
    /\ m.iterationInput = << FollowUpLine(Unknown), <<>> >>
    /\ cmds = <<>>

\* this step is the run of a command of this kind
Runs(kind) == Len(cmds') < Len(cmds) /\ trace'.cmd.kind = kind

\* AllRemoved in the state this step leads to
AllRemovedNext ==
    \A l \in DOMAIN m'.modelToPaneID :
        /\ m'.modelToPaneID[l] \notin panes'
        /\ m'.modelToWorktree[l] \notin wts'
        /\ m'.modelToWorktree[l] \notin branches'

\* the registry maps and the lists of created panes and worktrees
Registry(mm) ==
    <<mm.modelToPaneID, mm.modelToWorktree, mm.instanceProvider, mm.instanceBaseModel,
      mm.createdPanes, mm.createdWorktrees>>

(* C11: submitting `@<label> <text>` for a registered label appends text   *)
(* to the end of the prompt log of that label and of no other, gives text  *)
(* to the History Store, leaves the registered panes and workspaces as     *)
(* they were and keeps the session in Iteration; the command it starts     *)
(* removes and creates nothing.                                            *)
C11_FollowUpAppendsToOneLog ==
    [][/\ \A l \in Registered :
             Submits(FollowUpLine(l))
                 => /\ DOMAIN m'.modelPrompts = DOMAIN m.modelPrompts
                    /\ m'.modelPrompts[l] = Append(m.modelPrompts[l], <<"x">>)
                    /\ \A o \in DOMAIN m.modelPrompts \ {l} :
                          m'.modelPrompts[o] = m.modelPrompts[o]
                    /\ m'.history = pushHistorySlice(m.history, <<"x">>)
                    /\ Registry(m') = Registry(m)
                    /\ m'.screen = "Iteration"
                    /\ cmds' = Append(cmds, sendToModelPaneCmd(m.modelToPaneID[l], l, <<"x">>, m'))
       /\ Runs("send") => (m' = m /\ UNCHANGED <<panes, wts, branches>>)]_vars

C11_Witness ==
    /\ trace.cmd.kind = "send"
    /\ trace.cmd.label \in Registered
    /\ m.screen = "Iteration"
    /\ \E o \in Registered \ {trace.cmd.label} : m.modelPrompts[o] = << <<"p">> >>
    /\ m.modelPrompts[trace.cmd.label] = << <<"p">>, <<"x">> >>
    /\ m.history = << <<"x">>, <<"p">> >>

\* a session that has launched nothing
Fresh == InitModel(0, NoSelection, <<>>, <<>>)

(* C12: submitting exactly `/bail` in Iteration starts Bail; its run tries *)
(* no commit, merge or push and leaves no pane, workspace or temporary     *)
(* branch of a registered instance; the session quits when the completion  *)
(* of Bail is delivered, not before.  With nothing launched the run of     *)
(* Bail performs no operation and still reports completion.                *)
C12_BailRemovesAllThenQuits ==
    [][/\ Submits(<<"/","b","a","i","l">>)
             => (cmds' = Append(cmds, bailCmd(m')) /\ m'.screen = "Progress" /\ ~quit')
       /\ Runs("bail")
             => /\ \A i \in 1..Len(trace'.ops) :
                      trace'.ops[i].op \in {"kill-pane", "worktree-remove", "branch-delete"}
                /\ AllRemovedNext
                /\ msgs' = Append(msgs, Msg("bailComplete"))
                /\ ~quit'
       /\ Deliver("bailComplete") => quit'
       /\ bailRun(bailCmd(Fresh), Fresh) = Run(<<>>, Msg("bailComplete"))]_vars

C12_Witness ==
    /\ ~quit
    /\ m.screen = "Progress"
    /\ msgs = << Msg("bailComplete") >>
    /\ trace.cmd.kind = "bail"
    /\ trace.cmd.nPanes >= 2
    /\ Cardinality(Registered) >= 2
    /\ AllRemoved
    /\ wts = {}

(* C13: on the Setup, Iteration and NewTask screens Ctrl-C starts Cleanup  *)
(* of everything launched so far and does not quit; the run of Cleanup     *)
(* leaves no pane, workspace or temporary branch of a registered instance, *)
(* and the session quits when the completion of Cleanup is delivered.      *)
C13_CancelCleansThenQuits ==
    [][/\ (m.screen \in {"Setup", "Iteration", "NewTask"} /\ KeyStep(Key("CtrlC")))
             => (cmds' = Append(cmds, cleanupCmd(m)) /\ m' = m /\ ~quit')
       /\ Runs("cleanup")
             => /\ trace'.cmd.nPanes = Len(m.createdPanes)
                /\ trace'.cmd.nWorktrees = Len(m.createdWorktrees)
                /\ AllRemovedNext
                /\ msgs' = Append(msgs, Msg("cleanupComplete"))
                /\ ~quit'
       /\ Deliver("cleanupComplete") => quit']_vars

C13_Witness ==
    /\ quit
    /\ trace = NoTrace
    /\ m.screen = "NewTask"
    /\ Registered # {}
    /\ AllRemoved

\* nothing this session created is left
NothingLeft ==
    /\ \A i \in 1..Len(m.createdPanes) : m.createdPanes[i] \notin panes
    /\ \A i \in 1..Len(m.createdWorktrees) :
          m.createdWorktrees[i] \notin wts /\ m.createdWorktrees[i] \notin branches

(* C14: a run of Cleanup leaves no pane, workspace or temporary branch of  *)
(* a registered instance and reports completion; a run of Cleanup in a     *)
(* state an earlier Cleanup has left changes nothing of tmux and git, and  *)
(* so does a run with nothing launched.                                    *)
C14_CleanupIdempotent ==
    [][Runs("cleanup")
          => /\ AllRemovedNext
             /\ msgs' = Append(msgs, Msg("cleanupComplete"))
             /\ NothingLeft => UNCHANGED World
             /\ (m.createdPanes = <<>> /\ m.createdWorktrees = <<>>)
                   => (trace'.ops = <<>> /\ UNCHANGED World)]_vars

C14_Witness ==
    /\ trace.cmd.kind = "cleanup"
    /\ trace.cmd.nPanes >= 1
    /\ Len(msgs) = 2
    /\ \A i \in 1..Len(msgs) : msgs[i].type = "cleanupComplete"
    /\ NothingLeft

(* C17: no label of a Launch is a label an earlier Launch of the session   *)
(* registered, and the labels of one Launch are pairwise different.        *)
C17_LabelsUniqueInSession ==
    [][\A i \in 1..Len(msgs) :
          (msgs[i].type = "panesOpened" /\ Delivers(i))
              => /\ \A j \in 1..Len(msgs[i].modelNames) : msgs[i].modelNames[j] \notin Registered
                 /\ \A j, k \in 1..Len(msgs[i].modelNames) :
                       j # k => msgs[i].modelNames[j] # msgs[i].modelNames[k]]_vars

(* C15: whatever sequence of Space and Backspace is applied to the entries *)
(* of the Selection Table, from the table the saved defaults produce, no   *)
(* count is below 0.                                                       *)
C15_CountNeverNegative ==
    \A p \in Range(providers) : \A n \in Range(models[p]) : m.selected[p][n] >= 0

\* the hovered model of the open models list
Hovered == providerModels(m)[ClampHover(m) + 1]

C15_Witness ==
    /\ m.focus = "focusModels"
    /\ m.modelsOpen
    /\ m.selected[currentProvider(m)][Hovered] = 0
    /\ \E n \in Range(providerModels(m)) : m.selected[currentProvider(m)][n] = MaxCount

\* name, name-2, ..., name-c
LabelsOf(name, c) == [i \in 1..c |-> IF i = 1 THEN name ELSE name \o <<"-">> \o Itoa(i)]

RECURSIVE LabelsFrom(_, _, _)
\* the labels of the models names[i], names[i+1], ... with the counts sel
LabelsFrom(names, sel, i) ==
    IF i > Len(names) THEN <<>>
    ELSE LabelsOf(names[i], sel[names[i]]) \o LabelsFrom(names, sel, i + 1)

(* C16: the labels of a Launch of the Selection Table are, for each model  *)
(* of the provider in catalog order with count c > 0, the bare name, then  *)
(* name-2, ..., name-c; the table {a: 2, b: 1} gives [a, a-2, b].          *)
C16_ExpansionLabels ==
    /\ LaunchLabels(selectedModels(m))
          = LabelsFrom(providerModels(m), m.selected[currentProvider(m)], 1)
    /\ (m.providerIndex = 0 /\ m.selected["github-copilot"] = [n \in {A, B} |-> IF n = A THEN 2 ELSE 1])
          => LaunchLabels(selectedModels(m)) = << <<"a">>, <<"a", "-", "2">>, <<"b">> >>

C16_Witness ==
    /\ m.providerIndex = 0
    /\ m.selected["github-copilot"][A] = 2
    /\ m.selected["github-copilot"][B] = 1
    /\ Len(LaunchLabels(selectedModels(m))) = 3

\* the store holds entries n, n-1, ..., most recent first, and at most
\* historyMax of them
HoldsLatest(h, n) ==
    /\ Len(h) = (IF n < historyMax THEN n ELSE historyMax)
    /\ \A i \in 1..Len(h) : h[i] = Entry(n - i + 1)

(* C18: the History Store never holds more than 20 entries; after the      *)
(* distinct entries 1, ..., n have been pushed it holds the latest 20 of   *)
(* them (all of them up to n = 20), the newest at index 0, and an entry    *)
(* just pushed is at index 0.                                              *)
C18_HistoryBounded ==
    /\ Len(m.history) <= 20
    /\ HoldsLatest(m.history, HistNum(m.history))
    /\ (trace.cmd.kind = "push" /\ trace.msg = "pushed")
          => m.history[1] = TrimSpace(trace.cmd.prompt)

C18_Witness ==
    /\ trace.cmd.kind = "push"
    /\ trace.cmd.prompt = Entry(25)
    /\ Len(m.history) = 20
    /\ m.history[1] = Entry(25)
    /\ m.history[20] = Entry(6)

(* C19: a push leaves the History Store as it was when the entry is empty  *)
(* after trimming white space, or when the trimmed entry is the most       *)
(* recent entry of the store; the length is then unchanged.                *)
C19_PushNoOp ==
    [][\A e \in PushInputs(m.history) :
          (/\ PushHistory(e)
           /\ \/ TrimSpace(e) = <<>>
              \/ (m.history # <<>> /\ TrimSpace(e) = m.history[1]))
              => (m'.history = m.history /\ trace'.msg = "kept")]_vars

C19_Witness ==
    /\ trace.cmd.kind = "push"
    /\ trace.msg = "kept"
    /\ Len(m.history) >= 2
    /\ trace.cmd.prompt # TrimSpace(trace.cmd.prompt)
    /\ TrimSpace(trace.cmd.prompt) = m.history[1]

\* Up / Down reaches the history navigation of the Setup prompt
SetupNav(t) == m.screen = "Setup" /\ m.focus = "focusPrompt" /\ KeyStep(Key(t))

\* Up / Down reaches the history navigation of the Iteration prompt
IterNav(t) ==
    /\ m.screen = "Iteration"
    /\ ~(m.autocompleteActive /\ Len(m.autocompleteOptions) > 0)
    /\ KeyStep(Key(t))

\* the rows restored from a draft
DraftRows(draft) == IF draft # <<>> THEN draft ELSE << <<>> >>

(* The navigation steps of one prompt: its rows and navigation cursor      *)
(* before (rows, ix) and after (rowsN, ixN) a step, its draft before and   *)
(* after (draft, draftN), whether the step is an Up or a Down.             *)
NavStep(up, down, rows, ix, draft, rowsN, ixN, draftN) ==
    /\ (up /\ ix = -1 /\ m.history # <<>>)
          => (draftN = rows /\ ixN = 0 /\ JoinLines(rowsN) = m.history[1])
    /\ (up /\ ix >= 0 /\ ix + 1 < Len(m.history))
          => (ixN = ix + 1 /\ JoinLines(rowsN) = m.history[ixN + 1])
    /\ (up /\ ix >= 0 /\ ix + 1 >= Len(m.history)) => ixN = ix
    /\ (down /\ ix > 0)
          => (ixN = ix - 1 /\ JoinLines(rowsN) = m.history[ixN + 1])
    /\ (down /\ ix = 0) => (ixN = -1 /\ rowsN = DraftRows(draft))
    /\ (ix >= 0 /\ ixN >= 0) => draftN = draft

(* C20: on the Setup prompt and on the Iteration prompt, the first Up from *)
(* index -1 with a non-empty history takes the rows of the buffer as the   *)
(* draft and loads history[0]; every Up or Down that moves the index to    *)
(* i >= 0 loads history[i]; the draft is not touched while the index is    *)
(* not -1; and the Down at index 0 sets the index to -1 and makes the rows *)
(* of the buffer the draft again (one empty row without a draft).          *)
C20_NavigationKeepsDraft ==
    [][/\ NavStep(SetupNav("Up"), SetupNav("Down"),
                  m.input, m.historyIndex, m.draftInput,
                  m'.input, m'.historyIndex, m'.draftInput)
       /\ NavStep(IterNav("Up"), IterNav("Down"),
                  m.iterationInput, m.iterationHistoryIndex, m.draftIterationInput,
                  m'.iterationInput, m'.iterationHistoryIndex, m'.draftIterationInput)
       /\ RestoreDraft(<<>>) = Buf(<< <<>> >>, Pos(0, 0))]_vars

C20_Witness ==
    /\ m.screen = "Iteration"
    /\ Len(m.history) = 2
    /\ m.iterationHistoryIndex = -1
    /\ m.draftIterationInput = << <<"x">> >>
    /\ m.iterationInput = m.draftIterationInput
    /\ m.iterationCursor = Pos(0, 1)

----------------------------------------------------------------------------
(* Line Buffers: the main prompt, the iteration command and the new-task   *)
(* prompt                                                                  *)

\* a buffer has a row and its cursor is on a row and within that row
WellFormed(b) ==
    /\ Len(b.rows) >= 1
    /\ 0 <= b.cur.row /\ b.cur.row < Len(b.rows)
    /\ 0 <= b.cur.col /\ b.cur.col <= Len(b.rows[b.cur.row + 1])

LineBuffers(mm) == {PromptBuf(mm), IterBuf(mm), NewTaskBuf(mm)}

(* C21: in every reachable state each of the three Line Buffers has at     *)
(* least one row, and its cursor lies on one of its rows and between the   *)
(* start and the end of that row.                                          *)
C21_LineBuffersWellFormed == \A b \in LineBuffers(m) : WellFormed(b)

----------------------------------------------------------------------------
(* SpecEdit: a user who has selected no model edits the main prompt of the *)
(* Setup screen; Enter then only splits the row (main.go:824-838).         *)

MaxEdit == 3   \* bytes in the prompt

\* string(msg.Runes) of the rune U+00E9: two bytes, a lead and a continuation
Eacute == <<"xC3", "xA9">>

Continuation == {"xA9"}

\* len(msg.Runes) of a key whose string(msg.Runes) is r
RuneCount(r) == Cardinality({i \in 1..Len(r) : r[i] \notin Continuation})

RECURSIVE EditSize(_)
EditSize(rows) == IF rows = <<>> THEN 0 ELSE Len(Head(rows)) + EditSize(Tail(rows))

EditKeys(mm) ==
    IF Len(selectedModels(mm)) > 0 \/ mm.focus # "focusPrompt" THEN {}
    ELSE {Runes(<<"a">>), Runes(Eacute), AltKey(Runes(<<"b">>)), AltKey(Runes(<<"f">>))}
         \cup {Key(t) : t \in {"Space", "Enter", "Backspace", "Left", "Right"}}

NextEdit ==
    \E k \in EditKeys(m), ord \in MapOrders :
        /\ EditSize(updateKey(m, k, ord).m.input) <= MaxEdit
        /\ KeyMsg(k, ord)

SpecEdit == Init /\ [][NextEdit]_vars

\* the buffer the keys of the screen edit
EditedBuf(mm) ==
    IF mm.screen = "Iteration" THEN IterBuf(mm)
    ELSE IF mm.screen = "NewTask" THEN NewTaskBuf(mm)
    ELSE PromptBuf(mm)

\* the session after the key k has been pressed n times
RECURSIVE PressTimes(_, _, _, _)
PressTimes(mm, k, n, ord) ==
    IF n = 0 THEN mm ELSE PressTimes(updateKey(mm, k, ord).m, k, n - 1, ord)

\* the text is inserted into a Line Buffer and no model is selected
Editing(mm) ==
    /\ Running
    /\ mm.screen = "Setup" /\ mm.focus = "focusPrompt" /\ ~mm.pendingEsc
    /\ Len(selectedModels(mm)) = 0

\* one key message carrying the runes r, then Backspace once per rune
RoundTrip(r) ==
    \A ord \in MapOrders :
        EditedBuf(PressTimes(updateKey(m, Runes(r), ord).m,
                             Key("Backspace"), RuneCount(r), ord)) = EditedBuf(m)

TypedAscii == { <<"a">>, <<"a", " ">>, <<"a", "b", "a">> }

TypedRunes == TypedAscii \cup { Eacute, <<"a">> \o Eacute }

(* C22: from any state of the buffer, inserting n runes at the cursor and  *)
(* pressing Backspace n times gives back the rows and the cursor, and so   *)
(* does a newline followed by one Backspace.                               *)
C22_InsertBackspaceRoundTrip ==
    Editing(m) =>
        /\ \A r \in TypedRunes : RoundTrip(r)
        /\ \A ord \in MapOrders :
              EditedBuf(updateKey(updateKey(m, Key("Enter"), ord).m,
                                  Key("Backspace"), ord).m) = EditedBuf(m)

\* the same round trip for runes of one byte, and for the newline
C22_OneByteRoundTrip ==
    Editing(m) =>
        /\ \A r \in TypedAscii : RoundTrip(r)
        /\ \A ord \in MapOrders :
              EditedBuf(updateKey(updateKey(m, Key("Enter"), ord).m,
                                  Key("Backspace"), ord).m) = EditedBuf(m)

----------------------------------------------------------------------------
(* Word movement                                                           *)

\* the column c of the row is strictly inside a word
InsideWord(line, c) ==
    /\ 0 < c /\ c < Len(line)
    /\ line[c] \notin Blank /\ line[c + 1] \notin Blank

\* the start of the word that holds column c
WordStart(line, c) ==
    CHOOSE s \in 0..c : /\ \A i \in (s + 1)..c : line[i] \notin Blank
                        /\ s = 0 \/ line[s] \in Blank

\* the cursor after Alt-b and then Alt-f
LeftThenRight(mm, ord) ==
    EditedBuf(updateKey(updateKey(mm, AltKey(Runes(<<"b">>)), ord).m,
                        AltKey(Runes(<<"f">>)), ord).m).cur

(* C23: for every row and every column strictly inside a word, word-left   *)
(* followed by word-right ends at a column that is not left of the start   *)
(* of that word; so do Alt-b and Alt-f pressed with the cursor there.      *)
C23_WordLeftRightNotBeforeStart ==
    Editing(m) =>
        /\ \A i \in 1..Len(m.input) : \A c \in 0..Len(m.input[i]) :
              InsideWord(m.input[i], c) =>
                  wordRight(m.input[i], wordLeft(m.input[i], c)) >= WordStart(m.input[i], c)
        /\ InsideWord(m.input[m.cursor.row + 1], m.cursor.col) =>
              \A ord \in MapOrders :
                  /\ LeftThenRight(m, ord).row = m.cursor.row
                  /\ LeftThenRight(m, ord).col >= WordStart(m.input[m.cursor.row + 1], m.cursor.col)

\* the cursor is inside a word that does not start the row
C23_Witness ==
    /\ Editing(m)
    /\ InsideWord(m.input[m.cursor.row + 1], m.cursor.col)
    /\ WordStart(m.input[m.cursor.row + 1], m.cursor.col) > 0
    /\ m.cursor.row > 0

----------------------------------------------------------------------------
(* SpecAuto: a user who launches two instances of one model and one of     *)
(* another, and then types, completes and moves the cursor in the command  *)
(* buffer of the Iteration screen without submitting anything.             *)

MaxType == 2   \* bytes of a row that is typed key by key

InitAuto ==
    Start(InitModel(0, Table("github-copilot", [n \in {A, B} |-> IF n = A THEN 2 ELSE 1]),
                    <<"f">>, <<>>))

\* text pasted into the empty command buffer
AutoLines ==
    { <<"/","n","e">>, NextSp \o A, WrapSp, <<"@","b">>, <<"x"," ","/","b">>, <<"a","/","b">> }

TypedBytes == {"/", "@", "a"}

\* a row short enough to be edited further
Short(mm) == Len(mm.iterationInput[mm.iterationCursor.row + 1]) <= MaxType

\* a pasted row, or a pasted row and one more byte typed at its end
Pasted(mm) ==
    \E l \in AutoLines :
        \/ mm.iterationInput[1] = l
        \/ (Len(mm.iterationInput[1]) = Len(l) + 1 /\ HasPrefix(mm.iterationInput[1], l))

AutoKeys(mm) ==
    IF mm.screen = "Iteration" THEN
        (IF \/ Len(mm.iterationInput[mm.iterationCursor.row + 1]) < MaxType
             \/ (mm.iterationInput[1] \in AutoLines
                   /\ mm.iterationCursor.col = Len(mm.iterationInput[1]))
         THEN {Runes(<<c>>) : c \in TypedBytes} \cup {Key("Space")} ELSE {})
        \cup (IF Short(mm) THEN {Key("Backspace")} ELSE {})
        \cup (IF AllEmpty(mm.iterationInput) THEN {Runes(l) : l \in AutoLines} ELSE {})
        \cup {Key(t) : t \in {"Tab", "Left", "Right", "CtrlA", "CtrlE"}}
        \cup {AltKey(Runes(<<"b">>)), AltKey(Runes(<<"f">>))}
        \cup (IF mm.autocompleteActive THEN {Key("Up"), Key("Down")} ELSE {})
        \cup (IF mm.autocompleteActive /\ (Short(mm) \/ Pasted(mm))
              THEN {Key("Enter")} ELSE {})
    ELSE IF mm.screen = "Setup" THEN
        IF AllEmpty(mm.input) THEN {Runes(<<"p">>)}
        ELSE IF launches = 0 THEN {Key("Enter")} ELSE {}
    ELSE {}

NextAuto ==
    \/ Idle /\ \E k \in AutoKeys(m), ord \in MapOrders : KeyMsg(k, ord)
    \/ Deliver("panesOpened")
    \/ RunOpenPanes

SpecAuto == InitAuto /\ [][NextAuto]_vars

----------------------------------------------------------------------------
(* Autocomplete                                                            *)

\* the names completed after `@`: the registered labels, else the selection
Pool(mm) ==
    IF DOMAIN mm.modelToPaneID # {} THEN DOMAIN mm.modelToPaneID
    ELSE Range(selectedModels(mm))

\* what follows the `@` of a token
LabelTails == { <<>>, A, <<"a","-">>, InstanceLabel(A, 2), B, <<"a","b">>, Unknown }

\* what follows the `/` of a token without argument
CommandTails ==
    { <<>>, <<"n">>, <<"n","e">>, <<"n","e","x","t">>, <<"n","e","x","t","t">>,
      <<"b">>, <<"b","a","i","l">>, <<"w","r">>, <<"a">> }

\* the command buffer is the one row `row` with the cursor at its end
Typed(row) ==
    /\ m.screen = "Iteration"
    /\ m.iterationInput = <<row>>
    /\ m.iterationCursor = Pos(0, Len(row))

(* C24: for a token `@p` the candidates are exactly the `@L` with L a       *)
(* registered label having prefix p (a selected model when no instance is  *)
(* registered), and for a token `/p` without argument exactly the commands *)
(* /bail, /next, /wrap having prefix /p; with the instances a, a-2 and b,  *)
(* `@a` gives @a and @a-2 and `/ne` gives /next.                           *)
C24_CandidateSets ==
    /\ \A ord \in MapOrders :
          /\ \A p \in LabelTails :
                Range(getAutocompleteOptions(m, <<"@">> \o p, ord))
                    = {<<"@">> \o l : l \in {x \in Pool(m) : HasPrefix(x, p)}}
          /\ \A p \in CommandTails :
                Range(getAutocompleteOptions(m, <<"/">> \o p, ord))
                    = {c \in Range(commands) : HasPrefix(c, <<"/">> \o p)}
    /\ m.autocompleteActive /\ Typed(<<"@">> \o A) /\ DOMAIN m.modelToPaneID = {A, InstanceLabel(A, 2), B}
          => Range(m.autocompleteOptions) = {<<"@">> \o A, <<"@">> \o InstanceLabel(A, 2)}
    /\ m.autocompleteActive /\ Typed(<<"/","n","e">>)
          => m.autocompleteOptions = << <<"/","n","e","x","t">> >>

\* `@a` has been typed with a, a-2 and b registered, and the menu is open
C24_Witness ==
    /\ m.autocompleteActive
    /\ Typed(<<"@">> \o A)
    /\ DOMAIN m.modelToPaneID = {A, InstanceLabel(A, 2), B}
    /\ Len(m.autocompleteOptions) = 2

\* the row of the command buffer that holds the cursor
CurRow == m.iterationInput[m.iterationCursor.row + 1]

NoBlank(s) == \A i \in 1..Len(s) : s[i] \notin Blank

(* the cursor is in the argument of the command: the row starts with       *)
(* `/next ` or `/wrap ` and no blank lies between that and the cursor      *)
InArgument(c) ==
    /\ m.screen = "Iteration"
    /\ HasPrefix(CurRow, c)
    /\ m.iterationCursor.col >= Len(c)
    /\ NoBlank(Slice(CurRow, Len(c), m.iterationCursor.col))

Partial(c) == Slice(CurRow, Len(c), m.iterationCursor.col)

\* the session after Enter
Accepted(ord) == updateKey(m, Key("Enter"), ord).m

\* Enter puts the hovered candidate in place of the argument and nothing else
ArgumentReplaced(c, ord) ==
    LET compl == m.autocompleteOptions[m.autocompleteIndex + 1] IN
    /\ Accepted(ord).iterationInput =
          [m.iterationInput EXCEPT ![m.iterationCursor.row + 1] =
              c \o compl \o Slice(CurRow, m.iterationCursor.col, Len(CurRow))]
    /\ Accepted(ord).iterationCursor = Pos(m.iterationCursor.row, Len(c) + Len(compl))

(* C25: on a row `/next <partial>` or `/wrap <partial>` with the cursor in *)
(* the argument, the candidates shown are the registered labels having     *)
(* prefix <partial>, and Enter replaces the argument alone: the command    *)
(* and the text right of the cursor stay.                                  *)
C25_ArgumentCompletion ==
    \A c \in {NextSp, WrapSp} :
        InArgument(c) /\ m.autocompleteActive =>
            /\ Range(m.autocompleteOptions) = {l \in Registered : HasPrefix(l, Partial(c))}
            /\ \A ord \in MapOrders : ArgumentReplaced(c, ord)

\* the same for an argument that holds neither `/` nor `@`
C25_ArgumentCompletionOfNames ==
    \A c \in {NextSp, WrapSp} :
        InArgument(c) /\ m.autocompleteActive /\ Range(Partial(c)) \cap {"/", "@"} = {} =>
            /\ Range(m.autocompleteOptions) = {l \in Registered : HasPrefix(l, Partial(c))}
            /\ \A ord \in MapOrders : ArgumentReplaced(c, ord)

\* the start of the token that ends at the cursor: the nearest blank to the left
TokenStart == SkipLeft(CurRow, m.iterationCursor.col, FALSE)

\* the token that ends at the cursor
Token == Slice(CurRow, TokenStart, m.iterationCursor.col)

MenuOpen == m.screen = "Iteration" /\ m.autocompleteActive

\* the key moves the hover index to j and does nothing else
Hovers(k, j) ==
    \A ord \in MapOrders :
        updateKey(m, Key(k), ord) = Res([m EXCEPT !.autocompleteIndex = j], NoCmd)

\* Enter puts the hovered candidate in place of the token
TokenReplaced ==
    LET compl == m.autocompleteOptions[m.autocompleteIndex + 1] IN
    \A ord \in MapOrders :
        /\ Accepted(ord).iterationInput =
              [m.iterationInput EXCEPT ![m.iterationCursor.row + 1] =
                  Slice(CurRow, 0, TokenStart) \o compl
                    \o Slice(CurRow, m.iterationCursor.col, Len(CurRow))]
        /\ Accepted(ord).iterationCursor = Pos(m.iterationCursor.row, TokenStart + Len(compl))

\* Enter closes the menu and starts nothing
MenuCloses ==
    \A ord \in MapOrders :
        /\ ~Accepted(ord).autocompleteActive
        /\ updateKey(m, Key("Enter"), ord).cmd = NoCmd
        /\ Accepted(ord).screen = "Iteration"

\* the hover index is one of the candidates and Tab, Down and Up cycle it
MenuCycles ==
    LET n == Len(m.autocompleteOptions)
        i == m.autocompleteIndex
    IN /\ n > 0 /\ 0 <= i /\ i < n
       /\ Hovers("Tab", (i + 1) % n)
       /\ Hovers("Down", (i + 1) % n)
       /\ Hovers("Up", (i + n - 1) % n)

(* C26: while autocomplete is active with n candidates the hover index is  *)
(* in 0..n-1, Tab and Down move it to (i+1) mod n and Up to (i-1) mod n;   *)
(* Enter replaces the token at the cursor with the hovered candidate,      *)
(* deactivates autocomplete and starts no orchestration action.            *)
C26_MenuNavigation == MenuOpen => MenuCycles /\ TokenReplaced /\ MenuCloses

\* the token starts with `/` or `@` and holds no other `/` or `@`
Marked(t) ==
    /\ t # <<>>
    /\ t[1] \in {"/", "@"}
    /\ \A i \in 2..Len(t) : t[i] \notin {"/", "@"}

\* the same when the token at the cursor is such a token
C26_MenuOnMarkedToken == MenuOpen /\ Marked(Token) => TokenReplaced

\* the cycling and the closing, for every token
C26_MenuCyclesAlways == MenuOpen => MenuCycles /\ MenuCloses

\* this step opens the menu
Activates == m.screen = "Iteration" /\ ~m.autocompleteActive /\ m'.autocompleteActive

\* the cursor is at the start of a row or right after a blank
AtTokenStart == m.iterationCursor.col = 0 \/ CurRow[m.iterationCursor.col] \in Blank

\* text that begins with `/` or `@` is typed at the start of a token
FreshMarker ==
    /\ AtTokenStart
    /\ \E r \in {<<"/">>, <<"@">>} \cup {l \in AutoLines : l[1] \in {"/", "@"}} : KeyStep(Runes(r))

\* Tab is pressed on a token that starts with `/` or `@`
TabOnMarker == Token # <<>> /\ Token[1] \in {"/", "@"} /\ KeyStep(Key("Tab"))

(* C27: autocomplete becomes active only when `/` or `@` is typed at the   *)
(* start of a token (at the start of the row or right after a blank) or    *)
(* when Tab is pressed on a non-empty token that starts with `/` or `@`;   *)
(* a `/` or `@` typed in the middle of a token does not activate it.       *)
C27_ActivationOnlyAtTokenStart == [][Activates => FreshMarker \/ TabOnMarker]_vars

\* a `/` or `@` typed right after a byte that is not a blank opens no menu
C27_NoActivationInsideToken ==
    [][ \A c \in {"/", "@"} :
          m.screen = "Iteration" /\ ~m.autocompleteActive /\ ~AtTokenStart
              /\ KeyStep(Runes(<<c>>)) => ~m'.autocompleteActive ]_vars

\* Left, Right, line start, line end, word left and word right
CursorMoves ==
    {Key(t) : t \in {"Left", "Right", "CtrlA", "CtrlE"}}
        \cup {AltKey(Runes(<<"b">>)), AltKey(Runes(<<"f">>))}

\* after any of the cursor movements the menu is closed
MovementCloses ==
    \A k \in CursorMoves, ord \in MapOrders : ~updateKey(m, k, ord).m.autocompleteActive

\* the menu holds a candidate, and not just the token as it is typed
MenuOffersMore ==
    /\ Len(m.autocompleteOptions) > 0
    /\ ~(Len(m.autocompleteOptions) = 1 /\ m.autocompleteOptions[1] = Token)

(* C28: whenever autocomplete is active its candidate list is non-empty    *)
(* and is not a single candidate identical to the typed token; after a     *)
(* cursor movement (Left, Right, line start or end, word left or right)    *)
(* autocomplete is inactive.                                               *)
C28_MenuOffersMoreThanTyped ==
    m.screen = "Iteration" =>
        /\ m.autocompleteActive => MenuOffersMore
        /\ MovementCloses

\* the part of C28 on the candidate list being non-empty, and on the movements
C28_MenuNonEmptyMovementCloses ==
    m.screen = "Iteration" =>
        /\ m.autocompleteActive => Len(m.autocompleteOptions) > 0
        /\ MovementCloses

----------------------------------------------------------------------------
(* Submitting the command buffer                                           *)

\* the text Enter submits
Submitted == TrimSpace(JoinLines(m.iterationInput))

\* the text is one of the commands of the Iteration screen
IsCommandLine(line) ==
    \/ line = <<"/","b","a","i","l">>
    \/ \E c \in {NextSp, WrapSp} :
          HasPrefix(line, c) /\ TrimSpace(Slice(line, Len(c), Len(line))) # <<>>
    \/ \E l \in Registered : HasPrefix(line, <<"@">> \o l \o <<" ">>)

\* texts next to the command forms: no label, no text, no blank, more text
OtherLines ==
    { NextSp, <<"/","w","r","a","p">>, <<"/","n","e","x","t","a">>, <<"@">> \o A,
      <<"/","b","a","i","l"," ","x">>, <<"x"," ","@","a"," ","y">>, <<"@","a","\t","x">> }

\* the session with the row `line` in the command buffer, the cursor at col
WithLine(line, col) ==
    [m EXCEPT !.iterationInput = <<line>>, !.iterationCursor = Pos(0, col)]

\* Enter on that session only splits the row at the cursor
OnlySplits(mm) ==
    \A ord \in MapOrders :
        updateKey(mm, Key("Enter"), ord) = Res(SetIter(mm, InsertNewline(IterBuf(mm))), NoCmd)

(* C29: in Iteration with autocomplete inactive, Enter on a buffer that is *)
(* not `/bail`, not `/next <label>` or `/wrap <label>` with a label, and   *)
(* not `@<label> <text>` with a registered label splits the row at the     *)
(* cursor, starts no action and leaves the screen, the registry, the       *)
(* prompt logs and the history as they are.                                *)
C29_OtherTextInsertsNewline ==
    [][ m.screen = "Iteration" /\ ~m.autocompleteActive /\ ~IsCommandLine(Submitted)
          /\ KeyStep(Key("Enter"))
        => /\ \A line \in OtherLines : \A col \in 0..Len(line) :
                 ~IsCommandLine(TrimSpace(line)) /\ OnlySplits(WithLine(line, col))
           /\ IterBuf(m') = InsertNewline(IterBuf(m))
           /\ cmds' = cmds /\ msgs' = msgs /\ ~quit'
           /\ m'.screen = "Iteration"
           /\ Registry(m') = Registry(m)
           /\ m'.modelPrompts = m.modelPrompts
           /\ m'.history = m.history ]_vars

\* `@z x` for the unregistered label z has been submitted and split
C29_Witness ==
    /\ m.screen = "Iteration"
    /\ m.iterationInput = << <<"@">> \o Unknown \o <<" ", "x">>, <<>> >>
    /\ m.iterationCursor = Pos(1, 0)
    /\ Idle
    /\ Registered # {}

----------------------------------------------------------------------------
(* Launch without a branch name                                            *)

BlankBranches == { <<>>, <<" ">>, <<" ", "\t">> }

\* the run of a launch for this branch name, whatever tmux would answer
RefusedRun(br) ==
    \A origOk \in BOOLEAN, okAt \in SUBSET (1..Len(trace'.cmd.models)) :
        LET run == openPanesRun([trace'.cmd EXCEPT !.branch = br], origOk, okAt, paneSeq) IN
        /\ run.ops = <<>>
        /\ run.msg.err /\ run.msg.count = 0
        /\ updateMsg(m, run.msg) = Res(m, NoCmd)

(* C30: a launch submitted with an empty or blank branch name is refused:  *)
(* its command creates no feature branch, no pane and no workspace, and    *)
(* from the submit to the end of the completion event the screen, the      *)
(* Instance Registry and the History Store stay as they were.              *)
C30_BlankBranchRefused ==
    [][ TrimSpace(m.branch) = <<>> =>
          /\ panes' = panes /\ wts' = wts /\ branches' = branches
          /\ m'.screen = m.screen
          /\ Registry(m') = Registry(m)
          /\ m'.history = m.history
          /\ trace' # trace /\ trace'.cmd.kind = "openPanes" =>
                /\ trace'.ops = <<>>
                /\ trace'.msg = "panesOpened"
                /\ msgs'[Len(msgs')].err
                /\ \A br \in BlankBranches : RefusedRun(br) ]_vars

\* the completion event of a refused launch has been delivered
C30_Witness ==
    /\ launches > 0
    /\ Idle
    /\ ~quit
    /\ m.branch = <<>>
    /\ m.screen = "Setup"
    /\ panes = {} /\ wts = {} /\ branches = {}

----------------------------------------------------------------------------
(* Submitting the Setup prompt                                             *)

\* a unit is selected for the provider of the session
SomeUnit(mm) ==
    \E n \in Range(providerModels(mm)) : mm.selected[currentProvider(mm)][n] > 0

\* this step starts a launch
StartsLaunch ==
    /\ Len(cmds') = Len(cmds) + 1
    /\ cmds'[Len(cmds')].kind = "openPanes"
    /\ launches' = launches + 1

(* C31: Enter on the Setup screen with the focus on the prompt starts a    *)
(* launch if and only if at least one unit is selected; with nothing       *)
(* selected it only splits the row of the prompt at the cursor.            *)
C31_LaunchIffUnitSelected ==
    [][ m.screen = "Setup" /\ m.focus = "focusPrompt" /\ KeyStep(Key("Enter")) /\ ~panicked'
        => /\ StartsLaunch <=> SomeUnit(m)
           /\ PromptBuf(m') = InsertNewline(PromptBuf(m))
           /\ ~SomeUnit(m) =>
                 /\ m' = SetPrompt(m, InsertNewline(PromptBuf(m)))
                 /\ cmds' = cmds /\ msgs' = msgs /\ launches' = launches ]_vars

\* Enter has split the prompt of a session with nothing selected
C31_Witness ==
    /\ m.screen = "Setup" /\ m.focus = "focusPrompt"
    /\ ~SomeUnit(m)
    /\ m.input = << <<"p">>, <<>> >>
    /\ m.cursor = Pos(1, 0)
    /\ launches = 0 /\ Idle

----------------------------------------------------------------------------
(* Next, Wrap and the relaunch from NewTask                                *)

\* the branch name, the provider choice and the Selection Table
LaunchSetting(mm) == <<mm.branch, mm.providerIndex, mm.selected>>

\* Enter submits a non-empty new-task prompt
SubmitsNewTask ==
    /\ m.screen = "NewTask"
    /\ m.newTaskFocus = "focusPrompt"
    /\ TrimSpace(JoinLines(m.newTaskPrompt)) # <<>>
    /\ KeyStep(Key("Enter"))

\* the completion event of a launch with at least `least` panes opened arrives on NewTask
RelaunchCompletes(least) ==
    /\ m.screen = "NewTask"
    /\ \E i \in 1..Len(msgs) :
          /\ msgs[i].type = "panesOpened"
          /\ msgs[i].count >= least
          /\ Delivers(i)

\* what C32 says of the steps before the completion event of the relaunch
RelaunchSameSetting ==
    /\ m.screen # "Setup" => LaunchSetting(m') = LaunchSetting(m)
    /\ SubmitsNewTask =>
          /\ StartsLaunch
          /\ cmds'[Len(cmds')].models = selectedModels(m)
          /\ cmds'[Len(cmds')].providerIndex = m.providerIndex
          /\ cmds'[Len(cmds')].branch = m.branch

(* C32: Next and Wrap leave the branch name, the provider choice and the   *)
(* Selection Table as they are; Enter on a non-empty new-task prompt       *)
(* launches with that provider and Selection Table; and when at least one  *)
(* instance of that launch is provisioned the session is in Iteration      *)
(* after the completion event.                                             *)
C32_RelaunchReturnsToIteration ==
    [][ /\ RelaunchSameSetting
        /\ RelaunchCompletes(1) => m'.screen = "Iteration" ]_vars

\* the same when every selected instance of the relaunch is provisioned
C32_FullRelaunchReturnsToIteration ==
    [][ /\ RelaunchSameSetting
        /\ \A n \in 1..(2 * MaxCount) :
              RelaunchCompletes(n) /\ n = Len(selectedModels(m)) => m'.screen = "Iteration" ]_vars

----------------------------------------------------------------------------
(* Usage counters                                                          *)

Count(ch, key) == IF key \in DOMAIN ch THEN ch[key] ELSE 0

\* the provider and the base model the launch recorded for a registered label
LaunchPair(l) == <<m.instanceProvider[l], m.instanceBaseModel[l]>>

\* the counters differ only at key, where the count is one higher
OneMore(key) ==
    /\ Count(choices', key) = Count(choices, key) + 1
    /\ \A other \in (DOMAIN choices \cup DOMAIN choices') \ {key} :
          Count(choices', other) = Count(choices, other)

\* a Next or a Wrap command runs on the label l
MergeRunsOn(l) ==
    /\ RunMerge("next") \/ RunMerge("wrap")
    /\ trace'.cmd.label = l

(* C33: a Next or a Wrap on a registered label adds one to the counter of  *)
(* the provider and base model recorded for that instance at its launch    *)
(* and leaves every other counter; every other step, a Next or a Wrap on   *)
(* an unknown label included, leaves all counters.                         *)
C33_OneCounterPerMerge ==
    [][ /\ \A l \in Registered :
              MergeRunsOn(l) =>
                  /\ OneMore(LaunchPair(l))
                  /\ m.instanceProvider[l] = currentProvider(m)
                  /\ \E n \in ModelNames, k \in 1..MaxCount :
                        l = InstanceLabel(n, k) /\ m.instanceBaseModel[l] = n
        /\ ~(\E l \in Registered : MergeRunsOn(l)) => choices' = choices ]_vars

\* a Next on the second instance of a has counted for the model a
C33_Witness ==
    /\ trace.cmd.kind = "next"
    /\ trace.cmd.label = InstanceLabel(A, 2)
    /\ Count(choices, <<"github-copilot", A>>) = 1
    /\ Count(choices, <<"github-copilot", InstanceLabel(A, 2)>>) = 0

\* a Next or a Wrap on the label that is never registered has run
C33_WitnessUnknown ==
    /\ trace.cmd.kind \in {"next", "wrap"}
    /\ trace.cmd.label = Unknown
    /\ choices = EmptyMap
    /\ m.screen = "Progress"

----------------------------------------------------------------------------
(* The Instance Registry on the NewTask screen                             *)

\* no label, pane handle, workspace handle or prompt log is registered
RegistryEmpty(mm) ==
    /\ DOMAIN mm.modelToPaneID = {}
    /\ DOMAIN mm.modelToWorktree = {}
    /\ DOMAIN mm.modelPrompts = {}
    /\ mm.createdPanes = <<>>
    /\ mm.createdWorktrees = <<>>

(* C34: on the NewTask screen, entered when a Next or a Wrap has cleaned   *)
(* up, the Instance Registry is empty.                                     *)
C34_RegistryEmptyOnNewTask == m.screen = "NewTask" => RegistryEmpty(m)

----------------------------------------------------------------------------
(* The order of the steps of Next and Wrap                                 *)

\* the place of an operation in the order commit, checkout, merge, push, cleanup
StepRank(name) ==
    CASE name \in {"add", "commit"} -> 1
      [] name = "checkout"          -> 2
      [] name = "merge"             -> 3
      [] name = "push"              -> 4
      [] name \in {"kill-pane", "worktree-remove", "branch-delete"} -> 5
      [] OTHER                      -> 0

IsCleanupOp(o) == StepRank(o.op) = 5

\* the operations of the latest run are in the order of their ranks,
\* each git step at most once
InOrder(ops) ==
    \A i, j \in 1..Len(ops) :
        i < j => /\ StepRank(ops[i].op) <= StepRank(ops[j].op)
                 /\ StepRank(ops[j].op) < 5 => ops[i].op # ops[j].op

\* every cleanup operation of the run comes after a merge that succeeded
CleanupAfterMergedBranch(ops) ==
    \A j \in 1..Len(ops) :
        IsCleanupOp(ops[j]) => \E i \in 1..(j - 1) : ops[i].op = "merge" /\ ops[i].ok

(* C35: the operations of every run of Next or Wrap occur in the order     *)
(* commit, feature-branch checkout, merge, push, cleanup; a pane is        *)
(* killed and a workspace or temporary branch removed only after the       *)
(* merge of the chosen instance's branch has succeeded, and a run that     *)
(* removes something is such a run.                                        *)
C35_StepOrder ==
    [][ (RunMerge("next") \/ RunMerge("wrap")) =>
            /\ InOrder(trace'.ops)
            /\ CleanupAfterMergedBranch(trace'.ops)
            /\ (panes' # panes \/ wts' # wts \/ branches' # branches) =>
                   \E i \in 1..Len(trace'.ops) :
                       trace'.ops[i].op = "merge" /\ trace'.ops[i].ok ]_vars

\* a Wrap has run all five steps, the push failing, and has removed everything
C35_Witness ==
    /\ trace.cmd.kind = "wrap"
    /\ StepOk("merge")
    /\ StepFailed("push")
    /\ \E i \in 1..Len(trace.ops) : IsCleanupOp(trace.ops[i])
    /\ panes = {}
    /\ wts = {}

----------------------------------------------------------------------------
(* What is left at quit                                                    *)

\* the session quits in this step
Quits == ~quit /\ quit'

\* the latest command was a Next or a Wrap that stopped at a failed checkout
AbortedOnCheckout ==
    /\ trace.cmd.kind \in {"next", "wrap"}
    /\ StepFailed("checkout")

(* C36: when the session quits, no pane and no workspace created by a      *)
(* Launch of the session exists any more, unless the quit follows a Next   *)
(* or a Wrap that stopped at a failed feature-branch checkout.             *)
C36_NothingLeftAtQuit ==
    [][ Quits /\ ~AbortedOnCheckout => panes' = {} /\ wts' = {} ]_vars

----------------------------------------------------------------------------
(* Progress is left                                                        *)

(* The runtime runs every command it was handed and delivers every message *)
(* a command returned (tea.Program.Run, started at main.go:2913): a run    *)
(* or a delivery that stays possible is eventually taken.                  *)
FairDelivery ==
    /\ \A type \in {"panesOpened", "bailComplete", "nextComplete", "wrapComplete",
                    "cleanupComplete", "escTimeout"} : WF_vars(Deliver(type))
    /\ WF_vars(RunOpenPanes)
    /\ \A kind \in {"bail", "cleanup", "send"} : WF_vars(RunSimple(kind))
    /\ \A kind \in {"next", "wrap"} : WF_vars(RunMerge(kind))

\* the sequential user of Spec, one saved default, under fair runs and deliveries
SpecLive == InitRace /\ [][Next]_vars /\ FairDelivery

CompletionEvents == {"bailComplete", "nextComplete", "wrapComplete"}

\* a Bail, a Next or a Wrap command runs
ActionRuns == RunSimple("bail") \/ RunMerge("next") \/ RunMerge("wrap")

\* the run hands over one completion event and nothing else
OneCompletionEvent ==
    /\ Len(msgs') = Len(msgs) + 1
    /\ SubSeq(msgs', 1, Len(msgs)) = msgs
    /\ msgs'[Len(msgs')].type \in CompletionEvents
    /\ Len(cmds') = Len(cmds) - 1

(* C37: every run of Bail, Next or Wrap hands over exactly one completion  *)
(* event, whatever the outcome of its steps; the delivery of that event    *)
(* puts the session on NewTask or makes it quit; and under fair runs and   *)
(* deliveries a session on the Progress screen is eventually on NewTask    *)
(* or has quit.                                                            *)
C37_ProgressIsLeft ==
    /\ [][ /\ ActionRuns => OneCompletionEvent
           /\ \A i \in 1..Len(msgs) :
                 msgs[i].type \in CompletionEvents /\ Delivers(i)
                     => m'.screen = "NewTask" \/ quit' ]_vars
    /\ (m.screen = "Progress" ~> (m.screen = "NewTask" \/ quit))

\* on Progress with the completion event of a Next that failed on its way
C37_Witness ==
    /\ m.screen = "Progress"
    /\ ~quit
    /\ Len(msgs) = 1
    /\ msgs[1].type = "bailComplete"
    /\ trace.cmd.kind = "next"
    /\ StepFailed("merge")

----------------------------------------------------------------------------
(* A key after Esc                                                         *)

\* one character typed without Alt
CharKeys == {Runes(<<c>>) : c \in {"x", "b"}}

\* the key k, pressed now, leaves no Esc pending
ClearsPendingEsc(k) ==
    \A ord \in MapOrders :
        ~updatePanics(m, k) => ~updateKey(m, k, ord).m.pendingEsc

(* C38: on Setup, Iteration and NewTask a character key received while an  *)
(* Esc is pending clears the pending state, so that the Esc timeout that   *)
(* follows starts no Cleanup.                                              *)
C38_CharacterKeyClearsPendingEsc ==
    m.pendingEsc /\ m.screen \in {"Setup", "Iteration", "NewTask"}
        => \A k \in CharKeys : ClearsPendingEsc(k)

\* the same on the Setup screen alone, and for Esc-b on every screen
C38_SetupKeyClearsPendingEsc ==
    m.pendingEsc =>
        /\ m.screen = "Setup" => \A k \in CharKeys : ClearsPendingEsc(k)
        /\ ClearsPendingEsc(Runes(<<"b">>))

----------------------------------------------------------------------------
(* The history cursors beside pushes and truncation                        *)

(* A history file that holds historyMax entries; the entry before its      *)
(* oldest has the form of a follow-up to the instance a.                   *)
FullHistory ==
    [i \in 1..historyMax |->
        IF i = historyMax - 1 THEN <<"@">> \o A \o <<" ", "x">> ELSE <<"h">> \o Itoa(i)]

\* the session starts with no history or with a full one
InitNavFull ==
    \E hist \in {<<>>, FullHistory} :
        Start(InitModel(1, Table("OpenAI", [n \in {A} |-> 1]), <<"f">>, hist))

\* the keys of SpecNav; on Iteration Enter is pressed on a follow-up only
NavFullKeys(mm) ==
    IF mm.screen = "Iteration" /\ mm.iterationInput # << <<"@">> \o A \o <<" ", "x">> >>
    THEN NavKeys(mm) \ {Key("Enter")}
    ELSE NavKeys(mm)

(* SpecNavFull: the user of SpecNav on a History Store at its capacity.    *)
NextNavFull ==
    \/ Idle /\ \E k \in NavFullKeys(m), ord \in MapOrders : KeyMsg(k, ord)
    \/ Deliver("panesOpened")
    \/ RunOpenPanes
    \/ RunSimple("send")

SpecNavFull == InitNavFull /\ [][NextNavFull]_vars

\* a cursor is -1 or the index of an entry
CursorInRange(idx, hist) ==
    /\ -1 <= idx
    /\ idx < Len(hist)
    /\ hist = <<>> => idx = -1

MainCursor(mm) == <<mm.historyIndex, mm.draftInput>>
IterationCursor(mm) == <<mm.iterationHistoryIndex, mm.draftIterationInput>>

NavigationStep == KeyStep(Key("Up")) \/ KeyStep(Key("Down"))

(* C39: the history cursor of the main prompt and that of the iteration    *)
(* command are always -1 or the index of an entry of the history, and -1   *)
(* while the history is empty, whatever is pushed or truncated while a     *)
(* cursor is away from -1; Up and Down on one prompt leave the cursor and  *)
(* the draft of the other prompt as they are.                              *)
C39_CursorsInRange ==
    /\ [](/\ CursorInRange(m.historyIndex, m.history)
          /\ CursorInRange(m.iterationHistoryIndex, m.history))
    /\ [][ NavigationStep =>
             /\ m.screen = "Setup" => IterationCursor(m') = IterationCursor(m)
             /\ m.screen = "Iteration" => MainCursor(m') = MainCursor(m) ]_vars

(* The launch was submitted from an entry of the full history, and the     *)
(* follow-up the iteration cursor found as the oldest entry has been sent  *)
(* from there: its push has truncated that entry away.                     *)
C39_Witness ==
    /\ m.screen = "Iteration"
    /\ m.iterationHistoryIndex = historyMax - 1
    /\ m.historyIndex >= 0
    /\ Len(m.history) = historyMax
    /\ m.history[1] = <<"x">>
    /\ \A i \in 1..Len(m.history) : m.history[i] # <<"@">> \o A \o <<" ", "x">>
    /\ m.modelPrompts[A][Len(m.modelPrompts[A])] = <<"x">>

----------------------------------------------------------------------------
(* The history cursor after a submission                                   *)

\* Enter on the Iteration prompt sends a follow-up and its prompt is pushed
FollowUpSubmitted ==
    /\ m.screen = "Iteration"
    /\ KeyStep(Key("Enter"))
    /\ Len(cmds') = Len(cmds) + 1
    /\ cmds'[Len(cmds')].kind = "send"
    /\ m'.history # m.history

\* the completion event of a launch is delivered and the prompt is pushed
LaunchSubmitted ==
    /\ \E i \in 1..Len(msgs) : msgs[i].type = "panesOpened" /\ Delivers(i)
    /\ m.screen # "Iteration"
    /\ m'.screen = "Iteration"
    /\ m'.history # m.history

\* Up on the Iteration prompt loads the most recent entry of the history
UpLoadsMostRecent(mm) ==
    mm.history # <<>> /\ IterUp(mm).iterationInput = SplitLines(mm.history[1])

(* C40: after a follow-up the cursor of the iteration command is -1 and    *)
(* holds no draft, so that Up then loads the most recent entry of the      *)
(* history, the text just submitted; after a launch that was provisioned   *)
(* the cursor of the main prompt is -1 and holds no draft.                 *)
C40_SubmissionResetsCursor ==
    [][ /\ FollowUpSubmitted =>
              /\ m'.iterationHistoryIndex = -1
              /\ m'.draftIterationInput = <<>>
              /\ UpLoadsMostRecent(m')
        /\ LaunchSubmitted =>
              /\ m'.historyIndex = -1
              /\ m'.draftInput = <<>> ]_vars

\* the same for a submission made while the cursor of the buffer is -1 and
\* the buffer has not been navigated before
C40_FreshSubmissionKeepsCursor ==
    [][ /\ FollowUpSubmitted /\ m.iterationHistoryIndex = -1 /\ m.draftIterationInput = <<>> =>
              /\ m'.iterationHistoryIndex = -1
              /\ m'.draftIterationInput = <<>>
              /\ UpLoadsMostRecent(m')
        /\ LaunchSubmitted /\ m.historyIndex = -1 /\ m.draftInput = <<>> =>
              /\ m'.historyIndex = -1
              /\ m'.draftInput = <<>> ]_vars

====
